---- MODULE Spec2Model ----
(***************************************************************************)
(* Model of the database query router of AerostackServer (src/src/server.ts, *)
(* the current class definition starting at line 849): target selection,    *)
(* query execution and batch execution over the embedded (d1) and the       *)
(* remote (postgres) driver.                                                *)
(*                                                                          *)
(* Strings are sequences of one-character strings, so that toLowerCase and  *)
(* String.prototype.includes are computed character by character.           *)
(***************************************************************************)
EXTENDS Integers, Sequences, FiniteSets, TLC

VARIABLES
    d1,            \* this._d1 is set (env.DB was bound)
    pgEnv,         \* environment: "none" (no connection string), "ok", "loadfail" (driver import throws)
    pgPool,        \* this.pgPool is set
    initDone,      \* this._initPromise has settled
    routingRules,  \* Object.entries(this.routingRules.tables): sequence of [table, target]
    pc,            \* position of the call in progress
    sql,           \* the SQL text of the call in progress
    target,        \* what determineTarget returned for sql ("none" before it ran)
    outcome,       \* what query() delivered to its caller: None, or Some of returned/thrown
    queries,       \* batch: the input list
    i,             \* batch: loop index (0-based, as in the code)
    results,       \* batch: results array
    errors,        \* batch: errors array
    success,       \* batch: success flag
    batchResult,   \* batch: the returned BatchResult, None before the return
    calls,         \* driver invocations made by the call in progress, with what the driver did
    d1Catalog,     \* the embedded database: its declared tables, in catalog order
    pgCatalog,     \* the remote database: its tables and their columns
    binding,       \* getSchema: the binding argument (None when omitted)
    tableRows,     \* getSchema: rows of the table-listing query
    tables,        \* getSchema: the SchemaTable list built so far
    schemaInfo,    \* getSchema: the returned SchemaInfo, None before the return
    sdkServer,     \* sdk._server: None (null) or Some of the env it was constructed with
    sdkClient,     \* sdk._client: None (null) or Some of the config it was constructed with
    inits,         \* number of sdk.init calls made so far
    accessed,      \* the sdk accessor read since the last init and what it did, None before any read
    storage,       \* this._storage is set (an R2 bucket was bound)
    projectId,     \* this._projectId (None when not configured)
    key,           \* storage: the key argument of the call in progress
    op,            \* the operation in progress: "none", a db operation ("query", "batch",
                   \* "getSchema") or a storage operation ("upload", "delete", "getUrl")
    inserted       \* routingRules.tables as written: [table, target] pairs in insertion order

\* the variables only getSchema uses
schemaVars == << d1Catalog, pgCatalog, binding, tableRows, tables, schemaInfo >>

sdkVars == << sdkServer, sdkClient, inits, accessed >>

storageVars == << storage, projectId, key >>

vars ==
    << d1, pgEnv, pgPool, initDone, routingRules, pc, sql, target, outcome,
       queries, i, results, errors, success, batchResult, calls, schemaVars,
           sdkVars, storageVars, op, inserted >>

(***************************************************************************)
(* Bounds                                                                   *)
(***************************************************************************)
MaxFrags == 2

MaxRules == 2

MaxBatch == 3

(***************************************************************************)
(* Optional values (undefined / a value)                                    *)
(***************************************************************************)
None == {}

Some(x) == {x}

IsSome(o) == o # {}

Get(o) == CHOOSE x \in o : TRUE

(***************************************************************************)
(* Strings                                                                  *)
(***************************************************************************)
UpperAlpha ==
    <<"A","B","C","D","E","F","G","H","I","J","K","L","M",
      "N","O","P","Q","R","S","T","U","V","W","X","Y","Z">>

LowerAlpha ==
    <<"a","b","c","d","e","f","g","h","i","j","k","l","m",
      "n","o","p","q","r","s","t","u","v","w","x","y","z">>

\* the lower-case letter of every upper-case letter
LowerOf ==
    [c \in {UpperAlpha[k] : k \in 1..26} |->
        LowerAlpha[CHOOSE k \in 1..26 : UpperAlpha[k] = c]]

toLowerCaseChar(c) == IF c \in DOMAIN LowerOf THEN LowerOf[c] ELSE c

\* mutant: the text is compared as written
toLowerCaseKeepCase(s) == s

toLowerCase(s) == [k \in 1..Len(s) |-> toLowerCaseChar(s[k])]

includes(s, t) ==
    \E k \in 0..(Len(s) - Len(t)) : SubSeq(s, k + 1, k + Len(t)) = t

(***************************************************************************)
(* determineTarget                                                          *)
(***************************************************************************)
DirectivePostgres ==
    <<"a","e","r","o","s","t","a","c","k",":","t","a","r","g","e","t","=","p","o","s","t","g","r","e","s">>

DirectiveD1 ==
    <<"a","e","r","o","s","t","a","c","k",":","t","a","r","g","e","t","=","d","1">>

\* mutant: 'except' is missing from the trigger list
complexTriggersNoExcept ==
    << <<"j","o","i","n">>,
       <<"g","r","o","u","p"," ","b","y">>,
       <<"h","a","v","i","n","g">>,
       <<"u","n","i","o","n">>,
       <<"i","n","t","e","r","s","e","c","t">> >>

complexTriggers ==
    << <<"j","o","i","n">>,
       <<"g","r","o","u","p"," ","b","y">>,
       <<"h","a","v","i","n","g">>,
       <<"u","n","i","o","n">>,
       <<"i","n","t","e","r","s","e","c","t">>,
       <<"e","x","c","e","p","t">> >>

\* the entries of rules whose lower-cased table name occurs in normalized
MatchingRules(rules, normalized) ==
    {k \in 1..Len(rules) : includes(normalized, toLowerCase(rules[k].table))}

\* mutant: the loop keeps the last matching entry instead of returning at the first
LastMatch(rules, normalized) ==
    CHOOSE k \in MatchingRules(rules, normalized) :
        \A m \in MatchingRules(rules, normalized) : k >= m

FirstMatch(rules, normalized) ==
    CHOOSE k \in MatchingRules(rules, normalized) :
        \A m \in MatchingRules(rules, normalized) : k <= m

\* mutant: the routing rules are consulted before the explicit hints
determineTargetRulesFirst(rules, pool, s) ==
    LET normalized == toLowerCase(s) IN
    IF MatchingRules(rules, normalized) # {}
         THEN rules[FirstMatch(rules, normalized)].target
    ELSE IF includes(normalized, DirectivePostgres) THEN "postgres"
    ELSE IF includes(normalized, DirectiveD1) THEN "d1"
    ELSE IF \E k \in 1..Len(complexTriggers) : includes(normalized, complexTriggers[k])
         THEN "postgres"
    ELSE IF pool THEN "postgres"
    ELSE "d1"

\* mutant: the default is d1 whether or not a pool exists
determineTargetDefaultD1(rules, pool, s) ==
    LET normalized == toLowerCase(s) IN
    IF includes(normalized, DirectivePostgres) THEN "postgres"
    ELSE IF includes(normalized, DirectiveD1) THEN "d1"
    ELSE IF MatchingRules(rules, normalized) # {}
         THEN rules[FirstMatch(rules, normalized)].target
    ELSE IF \E k \in 1..Len(complexTriggers) : includes(normalized, complexTriggers[k])
         THEN "postgres"
    ELSE "d1"

determineTarget(rules, pool, s) ==
    LET normalized == toLowerCase(s) IN
    IF includes(normalized, DirectivePostgres) THEN "postgres"
    ELSE IF includes(normalized, DirectiveD1) THEN "d1"
    ELSE IF MatchingRules(rules, normalized) # {}
         THEN rules[FirstMatch(rules, normalized)].target
    ELSE IF \E k \in 1..Len(complexTriggers) : includes(normalized, complexTriggers[k])
         THEN "postgres"
    ELSE IF pool THEN "postgres"
    ELSE "d1"

(***************************************************************************)
(* Inputs: SQL texts built from fragments, routing rules                    *)
(***************************************************************************)
FragUsers ==
    <<"S","E","L","E","C","T"," ","*"," ","F","R","O","M"," ","u","s","e","r","s">>

FragOrders ==
    <<" ","O","r","d","e","r","s">>

FragReunions ==
    <<" ","r","e","u","n","i","o","n","s">>

FragJoin ==
    <<" ","J","O","I","N"," ","t">>

FragGroupBy ==
    <<" ","G","r","o","u","p"," ","B","y"," ","i","d">>

FragHaving ==
    <<" ","h","a","v","i","n","g"," ","n">>

FragIntersect ==
    <<" ","I","n","t","e","r","S","e","c","t">>

FragExcept ==
    <<" ","E","X","C","E","P","T">>

FragHintPg ==
    <<"/","*","A","e","r","o","s","t","a","c","k",":","T","a","r","g","e","t","=","P","o","s","t","g","r","e","s","*","/">>

FragHintD1 ==
    <<"-","-","A","E","R","O","S","T","A","C","K",":","T","A","R","G","E","T","=","D","1"," ">>

Fragments ==
    { FragUsers, FragOrders, FragReunions, FragJoin, FragGroupBy, FragHaving,
      FragIntersect, FragExcept, FragHintPg, FragHintD1 }

RECURSIVE TextsOfLen(_)
TextsOfLen(n) ==
    IF n = 0 THEN { <<>> }
    ELSE { t \o f : t \in TextsOfLen(n - 1), f \in Fragments }

SqlTexts == UNION { TextsOfLen(n) : n \in 0..MaxFrags }

TableOrders ==
    <<"o","r","d","e","r","s">>

TableReunions ==
    <<"R","e","u","n","i","o","n","s">>

TableUsers ==
    <<"U","S","E","R","S">>

TableNames == { TableOrders, TableReunions, TableUsers }

Targets == { "d1", "postgres" }

Rules == [table : TableNames, target : Targets]

\* the keys of an object are distinct
RuleLists ==
    UNION { { r \in [1..n -> Rules] :
                \A a, b \in 1..n : a # b => r[a].table # r[b].table }
            : n \in 0..MaxRules }

(***************************************************************************)
(* Specification of determineTarget alone: the object's fields and the SQL  *)
(* text are drawn in the initial state, the action applies the function.    *)
(***************************************************************************)
Idle ==
    /\ pc = "idle" /\ target = "none" /\ outcome = None
    /\ queries = <<>> /\ i = 0 /\ results = <<>> /\ errors = <<>>
    /\ success = TRUE /\ batchResult = None /\ calls = <<>>
    /\ d1Catalog = <<>> /\ pgCatalog = <<>>
    /\ binding = None /\ tableRows = <<>> /\ tables = <<>> /\ schemaInfo = None
    /\ sdkServer = None /\ sdkClient = None /\ inits = 0 /\ accessed = None
    /\ storage = FALSE /\ projectId = None /\ key = <<>>
    /\ op = "none" /\ inserted = routingRules

InitTarget ==
    /\ d1 = TRUE
    /\ pgPool \in BOOLEAN
    /\ pgEnv = IF pgPool THEN "ok" ELSE "none"
    /\ initDone = TRUE
    /\ routingRules \in RuleLists
    /\ sql \in SqlTexts
    /\ Idle

DetermineTarget ==
    /\ pc = "idle"
    /\ target = "none"
    /\ target' = determineTarget(routingRules, pgPool, sql)
    /\ pc' = "done"
    /\ UNCHANGED << op, inserted, sdkVars, storageVars, schemaVars, d1, pgEnv, pgPool, initDone, routingRules, sql, outcome,
                    queries, i, results, errors, success, batchResult, calls >>

NextTarget == DetermineTarget

SpecTarget == InitTarget /\ [][NextTarget]_vars

(***************************************************************************)
(* Vocabulary of the properties of determineTarget.  Containment "in any    *)
(* letter case" is stated letter by letter, independently of toLowerCase.   *)
(***************************************************************************)
\* the same letter in the other case
CaseTwin ==
    [c \in {UpperAlpha[k] : k \in 1..26} \cup {LowerAlpha[k] : k \in 1..26} |->
        IF \E k \in 1..26 : UpperAlpha[k] = c
        THEN LowerAlpha[CHOOSE k \in 1..26 : UpperAlpha[k] = c]
        ELSE UpperAlpha[CHOOSE k \in 1..26 : LowerAlpha[k] = c]]

SameLetter(a, b) ==
    a = b \/ (a \in DOMAIN CaseTwin /\ CaseTwin[a] = b)

ContainsAnyCase(s, w) ==
    \E k \in 0..(Len(s) - Len(w)) : \A j \in 1..Len(w) : SameLetter(s[k + j], w[j])

Keywords ==
    { <<"j","o","i","n">>, <<"g","r","o","u","p"," ","b","y">>, <<"h","a","v","i","n","g">>,
      <<"u","n","i","o","n">>, <<"i","n","t","e","r","s","e","c","t">>, <<"e","x","c","e","p","t">> }

HasRemoteDirective == ContainsAnyCase(sql, DirectivePostgres)

HasLocalDirective == ContainsAnyCase(sql, DirectiveD1)

HasKeyword == \E w \in Keywords : ContainsAnyCase(sql, w)

RuleOccurs(k) == ContainsAnyCase(sql, routingRules[k].table)

SomeRuleOccurs == \E k \in 1..Len(routingRules) : RuleOccurs(k)

Decided == pc = "done" /\ target # "none"

\* C1: a text containing the remote directive (any letter case) is routed to
\* postgres, whatever the rules, keywords, local directive and pool are.
C1_RemoteDirectiveWins ==
    (Decided /\ HasRemoteDirective) => target = "postgres"

C1_Witness ==
    /\ Decided /\ HasRemoteDirective
    /\ \E k \in 1..Len(routingRules) : RuleOccurs(k) /\ routingRules[k].target = "d1"
    /\ ~pgPool
    /\ target = "postgres"

\* C2: a text containing the local directive (any letter case) and not the
\* remote one is routed to d1, whatever the rules, keywords and default are.
C2_LocalDirectiveWins ==
    (Decided /\ HasLocalDirective /\ ~HasRemoteDirective) => target = "d1"

C2_Witness ==
    /\ Decided /\ HasLocalDirective /\ ~HasRemoteDirective
    /\ \E k \in 1..Len(routingRules) : RuleOccurs(k) /\ routingRules[k].target = "postgres"
    /\ HasKeyword /\ pgPool
    /\ target = "d1"

\* C3 as stated: with no directive, for EVERY rule whose table name occurs in
\* the text the result is that rule's target.
C3_EveryOccurringRule ==
    (Decided /\ ~HasRemoteDirective /\ ~HasLocalDirective) =>
        \A k \in 1..Len(routingRules) : RuleOccurs(k) => target = routingRules[k].target

\* C3 amended: with no directive, the result is the target of the first rule,
\* in the enumeration order of the mapping, whose table name occurs in the
\* text, also when the text contains a complexity keyword.
C3_FirstOccurringRule ==
    (Decided /\ ~HasRemoteDirective /\ ~HasLocalDirective) =>
        \A k \in 1..Len(routingRules) :
            (RuleOccurs(k) /\ \A m \in 1..(k - 1) : ~RuleOccurs(m))
                => target = routingRules[k].target

C3_Witness ==
    /\ Decided /\ ~HasRemoteDirective /\ ~HasLocalDirective
    /\ Len(routingRules) = 2 /\ RuleOccurs(1) /\ RuleOccurs(2)
    /\ routingRules[1].target = "d1" /\ routingRules[2].target = "postgres"
    /\ HasKeyword
    /\ target = "d1"

\* C4: a text with a complexity keyword (any letter case), no directive and no
\* occurring rule table is routed to postgres, with or without a pool.
C4_ComplexityGoesRemote ==
    (Decided /\ HasKeyword /\ ~HasRemoteDirective /\ ~HasLocalDirective /\ ~SomeRuleOccurs)
        => target = "postgres"

C4_Witness ==
    /\ Decided /\ ~HasRemoteDirective /\ ~HasLocalDirective /\ ~SomeRuleOccurs
    /\ ContainsAnyCase(sql, <<"e","x","c","e","p","t">>)
    /\ Len(routingRules) > 0 /\ ~pgPool
    /\ target = "postgres"

\* C5: a text with no directive, no occurring rule table and no keyword gets
\* the default: postgres when the pool exists, otherwise d1.
C5_Default ==
    (Decided /\ ~HasKeyword /\ ~HasRemoteDirective /\ ~HasLocalDirective /\ ~SomeRuleOccurs)
        => target = (IF pgPool THEN "postgres" ELSE "d1")

C5_Witness ==
    /\ Decided /\ ~HasKeyword /\ ~HasRemoteDirective /\ ~HasLocalDirective /\ ~SomeRuleOccurs
    /\ Len(sql) > 0 /\ Len(routingRules) > 0 /\ pgPool /\ d1
    /\ target = "postgres"

(***************************************************************************)
(* Errors: ErrorCode, DatabaseError and the two driver-error translations   *)
(***************************************************************************)
DB_CONNECTION_FAILED == "DB_CONNECTION_FAILED"

DB_QUERY_FAILED == "DB_QUERY_FAILED"

DB_TABLE_NOT_FOUND == "DB_TABLE_NOT_FOUND"

DB_COLUMN_NOT_FOUND == "DB_COLUMN_NOT_FOUND"

DB_AUTH_FAILED == "DB_AUTH_FAILED"

\* new DatabaseError(code, message, { cause }); cause is optional
DatabaseError(code, message, cause) ==
    [name |-> "DatabaseError", code |-> code, message |-> message, cause |-> cause]

\* a || b on an optional string: undefined and '' are falsy
OrElse(o, dflt) == IF IsSome(o) /\ Get(o) # <<>> THEN Get(o) ELSE dflt

MsgNoConnection ==
    <<"N","o"," ","d","a","t","a","b","a","s","e"," ","c","o","n","n","e","c","t","i","o","n"," ","a","v","a","i","l","a","b","l","e">>

MsgTableDoesNotExist ==
    <<"T","a","b","l","e"," ","d","o","e","s"," ","n","o","t"," ","e","x","i","s","t",":"," ">>

MsgColumnDoesNotExist ==
    <<"C","o","l","u","m","n"," ","d","o","e","s"," ","n","o","t"," ","e","x","i","s","t",":"," ">>

MsgUnknown ==
    <<"u","n","k","n","o","w","n">>

MsgAuthFailed ==
    <<"D","a","t","a","b","a","s","e"," ","a","u","t","h","e","n","t","i","c","a","t","i","o","n"," ","f","a","i","l","e","d">>

MsgConnectFailed ==
    <<"F","a","i","l","e","d"," ","t","o"," ","c","o","n","n","e","c","t"," ","t","o"," ","d","a","t","a","b","a","s","e">>

MsgQueryFailedDefault ==
    <<"D","a","t","a","b","a","s","e"," ","q","u","e","r","y"," ","f","a","i","l","e","d">>

MsgPostgresErrorPrefix ==
    <<"P","o","s","t","g","r","e","s"," ","e","r","r","o","r"," ">>

MsgD1Default ==
    <<"D","1"," ","q","u","e","r","y"," ","f","a","i","l","e","d">>

NeedleNoSuchTable ==
    <<"n","o"," ","s","u","c","h"," ","t","a","b","l","e">>

NeedleNoSuchColumn ==
    <<"n","o"," ","s","u","c","h"," ","c","o","l","u","m","n">>

Code42P01 == <<"4","2","P","0","1">>

Code42703 == <<"4","2","7","0","3">>

Code28P01 == <<"2","8","P","0","1">>

Code28000 == <<"2","8","0","0","0">>

Code08006 == <<"0","8","0","0","6">>

Code08003 == <<"0","8","0","0","3">>

\* mutant: code 28000 is not among the cases
fromPostgresErrorNo28000(err) ==
    IF err.code = Some(Code42P01)
    THEN DatabaseError(DB_TABLE_NOT_FOUND,
                       MsgTableDoesNotExist \o OrElse(err.table, MsgUnknown), err.message)
    ELSE IF err.code = Some(Code42703)
    THEN DatabaseError(DB_COLUMN_NOT_FOUND,
                       MsgColumnDoesNotExist \o OrElse(err.column, MsgUnknown), err.message)
    ELSE IF err.code \in {Some(Code28P01)}
    THEN DatabaseError(DB_AUTH_FAILED, MsgAuthFailed, err.message)
    ELSE IF err.code \in {Some(Code08006), Some(Code08003)}
    THEN DatabaseError(DB_CONNECTION_FAILED, MsgConnectFailed, err.message)
    ELSE DatabaseError(DB_QUERY_FAILED, OrElse(err.message, MsgQueryFailedDefault),
                       IF IsSome(err.code) /\ Get(err.code) # <<>>
                       THEN Some(MsgPostgresErrorPrefix \o Get(err.code))
                       ELSE None)

\* err: [code, message, table, column], each optional
fromPostgresError(err) ==
    IF err.code = Some(Code42P01)
    THEN DatabaseError(DB_TABLE_NOT_FOUND,
                       MsgTableDoesNotExist \o OrElse(err.table, MsgUnknown), err.message)
    ELSE IF err.code = Some(Code42703)
    THEN DatabaseError(DB_COLUMN_NOT_FOUND,
                       MsgColumnDoesNotExist \o OrElse(err.column, MsgUnknown), err.message)
    ELSE IF err.code \in {Some(Code28P01), Some(Code28000)}
    THEN DatabaseError(DB_AUTH_FAILED, MsgAuthFailed, err.message)
    ELSE IF err.code \in {Some(Code08006), Some(Code08003)}
    THEN DatabaseError(DB_CONNECTION_FAILED, MsgConnectFailed, err.message)
    ELSE DatabaseError(DB_QUERY_FAILED, OrElse(err.message, MsgQueryFailedDefault),
                       IF IsSome(err.code) /\ Get(err.code) # <<>>
                       THEN Some(MsgPostgresErrorPrefix \o Get(err.code))
                       ELSE None)

\* mutant: 'no such column' is tested before 'no such table'
fromD1ErrorColumnFirst(err) ==
    LET message == OrElse(err.message, MsgD1Default) IN
    IF includes(message, NeedleNoSuchColumn)
    THEN DatabaseError(DB_COLUMN_NOT_FOUND, message, err.message)
    ELSE IF includes(message, NeedleNoSuchTable)
    THEN DatabaseError(DB_TABLE_NOT_FOUND, message, err.message)
    ELSE DatabaseError(DB_QUERY_FAILED, message, err.message)

\* err: [message], optional
fromD1Error(err) ==
    LET message == OrElse(err.message, MsgD1Default) IN
    IF includes(message, NeedleNoSuchTable)
    THEN DatabaseError(DB_TABLE_NOT_FOUND, message, err.message)
    ELSE IF includes(message, NeedleNoSuchColumn)
    THEN DatabaseError(DB_COLUMN_NOT_FOUND, message, err.message)
    ELSE DatabaseError(DB_QUERY_FAILED, message, err.message)

NoConnectionError == DatabaseError(DB_CONNECTION_FAILED, MsgNoConnection, None)

(***************************************************************************)
(* What the two drivers may do with a statement                             *)
(***************************************************************************)
PgMsgRelation ==
    <<"r","e","l","a","t","i","o","n"," ","w","i","d","g","e","t","s"," ","d","o","e","s"," ","n","o","t"," ","e","x","i","s","t">>

PgMsgTimeout ==
    <<"s","t","a","t","e","m","e","n","t"," ","t","i","m","e","o","u","t">>

PgTableWidgets ==
    <<"w","i","d","g","e","t","s">>

D1MsgNoSuchTable ==
    <<"n","o"," ","s","u","c","h"," ","t","a","b","l","e",":"," ","w","i","d","g","e","t","s">>

D1MsgSyntax ==
    <<"n","e","a","r"," ","F","R","O","M",":"," ","s","y","n","t","a","x"," ","e","r","r","o","r">>

\* pgPool.query resolves with { rows, rowCount }
PgResults ==
    { [rows |-> <<>>, rowCount |-> None],
      [rows |-> <<"row1">>, rowCount |-> Some(1)] }

\* pgPool.query rejects
PgErrors ==
    { [code |-> Some(Code42P01), message |-> Some(PgMsgRelation),
       table |-> Some(PgTableWidgets), column |-> None],
      [code |-> None, message |-> Some(PgMsgTimeout), table |-> None, column |-> None] }

\* prepare(sql).bind(...params).all() resolves with { results, success, meta }
D1Results ==
    { [results |-> Some(<<"row1">>), success |-> TRUE, duration |-> Some(1)],
      [results |-> Some(<<>>), success |-> TRUE, duration |-> None],
      [results |-> None, success |-> FALSE, duration |-> None] }

\* prepare / bind / all throws or rejects
D1Errors ==
    { [message |-> Some(D1MsgNoSuchTable)], [message |-> Some(D1MsgSyntax)] }

(***************************************************************************)
(* routeQuery                                                               *)
(***************************************************************************)
\* mutant: a missing d1 handle falls back to the pool, as a missing pool falls back to d1
routeDriverOther(t, pool, hasD1) ==
    IF t = "postgres" /\ pool THEN "postgres"
    ELSE IF t = "d1" /\ hasD1 THEN "d1"
    ELSE IF t = "d1" /\ pool THEN "postgres"
    ELSE IF hasD1 THEN "d1"
    ELSE "throw"

\* mutant: a remote target without a remote driver is a connection failure
routeDriverStrict(t, pool, hasD1) ==
    IF t = "postgres" THEN (IF pool THEN "postgres" ELSE "throw")
    ELSE IF hasD1 THEN "d1"
    ELSE "throw"

\* the branch routeQuery takes once the target is known
routeDriver(t, pool, hasD1) ==
    IF t = "postgres" /\ pool THEN "postgres"
    ELSE IF hasD1 THEN "d1"
    ELSE "throw"

rowCountOrZero(o) == IF IsSome(o) /\ Get(o) # 0 THEN Get(o) ELSE 0

\* the response built from a resolved pgPool.query
pgResponse(result) ==
    [results |-> result.rows, success |-> TRUE,
     meta |-> [target |-> "postgres", rowCount |-> rowCountOrZero(result.rowCount)]]

\* the response built from a resolved d1 all()
d1Response(result) ==
    [results |-> IF IsSome(result.results) THEN Get(result.results) ELSE <<>>,
     success |-> result.success,
     meta |-> [target |-> "d1", duration |-> result.duration]]

\* log entry of a driver invocation; did is filled in when the driver settles
Invocation(engine, text, params, stmt) ==
    [engine |-> engine, sql |-> text, params |-> params, stmt |-> stmt, did |-> None]

Settle(log, ok, value) ==
    [log EXCEPT ![Len(log)].did = Some([ok |-> ok, value |-> value])]

Returned(response) == [kind |-> "returned", response |-> Some(response), error |-> None]

Thrown(error) == [kind |-> "thrown", response |-> None, error |-> Some(error)]

(***************************************************************************)
(* The constructor, initPostgres and db.query                               *)
(***************************************************************************)
MaxQueryFrags == 1

QueryTexts == UNION { TextsOfLen(n) : n \in 0..MaxQueryFrags }

\* State after the constructor: initPostgres has run up to its first await.
\* Without a connection string it has already completed.
Init ==
    /\ d1 \in BOOLEAN
    /\ pgEnv \in {"none", "ok", "loadfail"}
    /\ pgPool = FALSE
    /\ initDone = (pgEnv = "none")
    /\ routingRules \in RuleLists
    /\ sql = <<>>
    /\ Idle

\* mutant: the operation goes on without waiting for the initialisation
awaitInitPromiseSkipped(done) == TRUE

\* await this._initPromise: the operation goes on once the promise has settled
awaitInitPromise(done) == done

\* mutant: the pool is assigned before the import is known to have worked
InitPostgresPoolFirst ==
    /\ ~initDone
    /\ pgPool' = (pgEnv # "none")
    /\ initDone' = TRUE
    /\ UNCHANGED << op, inserted, sdkVars, storageVars, schemaVars, d1, pgEnv, routingRules, pc, sql, target, outcome,
                    queries, i, results, errors, success, batchResult, calls >>

\* the dynamic import settles: the pool is created, or the failure is logged
InitPostgres ==
    /\ ~initDone
    /\ pgPool' = (pgEnv = "ok")
    /\ initDone' = TRUE
    /\ UNCHANGED << op, inserted, sdkVars, storageVars, schemaVars, d1, pgEnv, routingRules, pc, sql, target, outcome,
                    queries, i, results, errors, success, batchResult, calls >>

\* db.query(sql, params) is called and awaits _initPromise
QueryCall ==
    /\ pc = "idle"
    /\ \E s \in QueryTexts : sql' = s
    /\ pc' = "awaitInit"
    /\ op' = "query"
    /\ UNCHANGED << inserted, sdkVars, storageVars, schemaVars, d1, pgEnv, pgPool, initDone, routingRules, target, outcome,
                    queries, i, results, errors, success, batchResult, calls >>

\* routeQuery up to the driver call (or to the final throw)
RouteQuery ==
    /\ pc = "awaitInit"
    /\ op = "query"
    /\ awaitInitPromise(initDone)
    /\ LET t == determineTarget(routingRules, pgPool, sql)
           drv == routeDriver(t, pgPool, d1)
       IN /\ target' = t
          /\ IF drv = "throw"
             THEN /\ outcome' = Some(Thrown(NoConnectionError))
                  /\ pc' = "done"
                  /\ calls' = calls
             ELSE /\ outcome' = outcome
                  /\ pc' = drv
                  /\ calls' = Append(calls, Invocation(drv, sql, <<>>, 0))
    /\ UNCHANGED << op, inserted, sdkVars, storageVars, schemaVars, d1, pgEnv, pgPool, initDone, routingRules, sql,
                    queries, i, results, errors, success, batchResult >>

PgQueryResolves ==
    /\ pc = "postgres"
    /\ op = "query"
    /\ \E result \in PgResults :
          /\ outcome' = Some(Returned(pgResponse(result)))
          /\ calls' = Settle(calls, TRUE, result)
    /\ pc' = "done"
    /\ UNCHANGED << op, inserted, sdkVars, storageVars, schemaVars, d1, pgEnv, pgPool, initDone, routingRules, sql, target,
                    queries, i, results, errors, success, batchResult >>

\* mutant: a statement that failed on the pool is tried again on d1
PgQueryRejectsRetry ==
    /\ pc = "postgres"
    /\ op = "query"
    /\ \E err \in PgErrors :
          IF d1
          THEN /\ calls' = Append(Settle(calls, FALSE, err), Invocation("d1", sql, <<>>, 0))
               /\ pc' = "d1"
               /\ outcome' = outcome
          ELSE /\ calls' = Settle(calls, FALSE, err)
               /\ pc' = "done"
               /\ outcome' = Some(Thrown(fromPostgresError(err)))
    /\ UNCHANGED << op, inserted, sdkVars, storageVars, schemaVars, d1, pgEnv, pgPool, initDone, routingRules, sql, target,
                    queries, i, results, errors, success, batchResult >>

PgQueryRejects ==
    /\ pc = "postgres"
    /\ op = "query"
    /\ \E err \in PgErrors :
          /\ outcome' = Some(Thrown(fromPostgresError(err)))
          /\ calls' = Settle(calls, FALSE, err)
    /\ pc' = "done"
    /\ UNCHANGED << op, inserted, sdkVars, storageVars, schemaVars, d1, pgEnv, pgPool, initDone, routingRules, sql, target,
                    queries, i, results, errors, success, batchResult >>

D1AllResolves ==
    /\ pc = "d1"
    /\ op = "query"
    /\ \E result \in D1Results :
          /\ outcome' = Some(Returned(d1Response(result)))
          /\ calls' = Settle(calls, TRUE, result)
    /\ pc' = "done"
    /\ UNCHANGED << op, inserted, sdkVars, storageVars, schemaVars, d1, pgEnv, pgPool, initDone, routingRules, sql, target,
                    queries, i, results, errors, success, batchResult >>

D1AllRejects ==
    /\ pc = "d1"
    /\ op = "query"
    /\ \E err \in D1Errors :
          /\ outcome' = Some(Thrown(fromD1Error(err)))
          /\ calls' = Settle(calls, FALSE, err)
    /\ pc' = "done"
    /\ UNCHANGED << op, inserted, sdkVars, storageVars, schemaVars, d1, pgEnv, pgPool, initDone, routingRules, sql, target,
                    queries, i, results, errors, success, batchResult >>

Next ==
    \/ InitPostgres
    \/ QueryCall
    \/ RouteQuery
    \/ PgQueryResolves
    \/ PgQueryRejects
    \/ D1AllResolves
    \/ D1AllRejects

Spec == Init /\ [][Next]_vars

(***************************************************************************)
(* Properties of db.query                                                   *)
(***************************************************************************)
Finished == pc = "done" /\ IsSome(outcome)

ThrownCode == IF IsSome(outcome) /\ Get(outcome).kind = "thrown"
              THEN Get(Get(outcome).error).code ELSE "none"

FailedNoConnection ==
    /\ Get(outcome).kind = "thrown"
    /\ Get(Get(outcome).error).name = "DatabaseError"
    /\ ThrownCode = "DB_CONNECTION_FAILED"
    /\ calls = <<>>

\* C6 as stated: whenever the handle of the engine determineTarget selected is
\* absent, query fails with DB_CONNECTION_FAILED and no driver is invoked.
C6_SelectedAbsentFails ==
    (Finished /\ ((target = "postgres" /\ ~pgPool) \/ (target = "d1" /\ ~d1)))
        => FailedNoConnection

\* C6 amended: query fails with DB_CONNECTION_FAILED, invoking no driver,
\* whenever the embedded handle is absent and either the selected engine is
\* the embedded one (whatever the remote driver's availability) or the remote
\* handle is absent too.
\* When the remote engine is selected, its handle is absent and the embedded
\* driver is configured, the statement is executed once on the embedded driver
\* and the call fails only if that driver rejects.
C6_NoUsableDriverFails ==
    /\ (Finished /\ ~d1 /\ (target = "d1" \/ ~pgPool)) => FailedNoConnection
    /\ (Finished /\ target = "postgres" /\ ~pgPool /\ d1) =>
          /\ Len(calls) = 1
          /\ calls[1].engine = "d1"
          /\ calls[1].sql = sql
          /\ (Get(outcome).kind = "thrown") = ~Get(calls[1].did).ok

C6_Witness ==
    /\ Finished /\ target = "d1" /\ ~d1 /\ pgPool
    /\ FailedNoConnection

\* C7: every response query() returns has success = TRUE; a failed execution
\* is only ever delivered as a thrown error.
C7_ReturnedMeansSuccess ==
    (Finished /\ Get(outcome).kind = "returned")
        => Get(Get(outcome).response).success = TRUE

(***************************************************************************)
(* db.batch                                                                 *)
(***************************************************************************)
\* BatchQuery: { sql, params? }
BatchQueries ==
    { [sql |-> FragUsers, params |-> None],
      [sql |-> FragUsers \o FragOrders, params |-> Some(<<7>>)],
      [sql |-> FragHintD1 \o FragUsers, params |-> None] }

BatchInputs == UNION { [1..n -> BatchQueries] : n \in 0..MaxBatch }

BatchRuleLists ==
    { r \in RuleLists : Len(r) <= 1 /\ \A k \in 1..Len(r) : r[k].table = TableOrders }

\* queries[i].params || []
paramsOrEmpty(q) == IF IsSome(q.params) THEN Get(q.params) ELSE <<>>

\* the response pushed by the catch block
ZeroedResponse == [results |-> <<>>, success |-> FALSE, meta |-> [target |-> "d1"]]

\* errors.length > 0 ? errors : undefined
errorsOrUndefined(es) == IF Len(es) > 0 THEN Some(es) ELSE None

InitBatch ==
    /\ d1 \in BOOLEAN
    /\ pgEnv \in {"none", "ok", "loadfail"}
    /\ pgPool = FALSE
    /\ initDone = (pgEnv = "none")
    /\ routingRules \in BatchRuleLists
    /\ sql = <<>>
    /\ Idle

\* db.batch(queries) is called and awaits _initPromise
BatchCall ==
    /\ pc = "idle"
    /\ \E qs \in BatchInputs : queries' = qs
    /\ pc' = "awaitInit"
    /\ op' = "batch"
    /\ UNCHANGED << inserted, sdkVars, storageVars, schemaVars, d1, pgEnv, pgPool, initDone, routingRules, sql, target, outcome,
                    i, results, errors, success, batchResult, calls >>

\* after the await: the locals are initialised and the loop is entered
BatchStart ==
    /\ pc = "awaitInit"
    /\ op = "batch"
    /\ awaitInitPromise(initDone)
    /\ results' = <<>>
    /\ errors' = <<>>
    /\ success' = TRUE
    /\ i' = 0
    /\ pc' = "loop"
    /\ UNCHANGED << op, inserted, sdkVars, storageVars, schemaVars, d1, pgEnv, pgPool, initDone, routingRules, sql, target, outcome,
                    queries, batchResult, calls >>

\* mutant: the catch block records the error but pushes no result slot
CatchNoSlot(error) ==
    /\ success' = FALSE
    /\ errors' = Append(errors, [index |-> i, error |-> error])
    /\ results' = results
    /\ i' = i + 1
    /\ pc' = "loop"

\* mutant: the catch block records the position in the errors array, not the loop index
CatchErrorPosition(error) ==
    /\ success' = FALSE
    /\ errors' = Append(errors, [index |-> Len(errors), error |-> error])
    /\ results' = Append(results, ZeroedResponse)
    /\ i' = i + 1
    /\ pc' = "loop"

\* mutant: a missing connection is rethrown to the caller of batch
CatchRethrow(error) ==
    IF error.code = "DB_CONNECTION_FAILED" /\ error.cause = None
    THEN /\ pc' = "done"
         /\ UNCHANGED << success, errors, results, i >>
    ELSE /\ success' = FALSE
         /\ errors' = Append(errors, [index |-> i, error |-> error])
         /\ results' = Append(results, ZeroedResponse)
         /\ i' = i + 1
         /\ pc' = "loop"

\* mutant: the catch block leaves the loop after recording the failure
CatchBreak(error) ==
    /\ success' = FALSE
    /\ errors' = Append(errors, [index |-> i, error |-> error])
    /\ results' = Append(results, ZeroedResponse)
    /\ i' = Len(queries)
    /\ pc' = "loop"

\* the catch block of the loop body, then i++
Catch(error) ==
    /\ success' = FALSE
    /\ errors' = Append(errors, [index |-> i, error |-> error])
    /\ results' = Append(results, ZeroedResponse)
    /\ i' = i + 1
    /\ pc' = "loop"

\* results.push(result), then i++
Push(result) ==
    /\ results' = Append(results, result)
    /\ i' = i + 1
    /\ pc' = "loop"
    /\ UNCHANGED << success, errors >>

\* mutant: the loop starts each statement without awaiting the one before
BatchRouteNoAwait ==
    /\ pc = "loop"
    /\ op = "batch"
    /\ i < Len(queries)
    /\ LET q == queries[i + 1]
           t == determineTarget(routingRules, pgPool, q.sql)
           drv == routeDriver(t, pgPool, d1)
       IN /\ sql' = q.sql
          /\ target' = t
          /\ IF drv = "throw"
             THEN /\ Catch(NoConnectionError)
                  /\ calls' = calls
             ELSE /\ pc' = (IF i + 1 < Len(queries) THEN "loop" ELSE drv)
                  /\ i' = (IF i + 1 < Len(queries) THEN i + 1 ELSE i)
                  /\ calls' = Append(calls, Invocation(drv, q.sql, paramsOrEmpty(q), i))
                  /\ UNCHANGED << results, errors, success >>
    /\ UNCHANGED << op, inserted, sdkVars, storageVars, schemaVars, d1, pgEnv, pgPool, initDone, routingRules, outcome,
                    queries, batchResult >>

\* loop body: routeQuery(queries[i].sql, queries[i].params || []) up to the
\* driver call, or to its final throw, which the catch block handles
BatchRoute ==
    /\ pc = "loop"
    /\ op = "batch"
    /\ i < Len(queries)
    /\ LET q == queries[i + 1]
           t == determineTarget(routingRules, pgPool, q.sql)
           drv == routeDriver(t, pgPool, d1)
       IN /\ sql' = q.sql
          /\ target' = t
          /\ IF drv = "throw"
             THEN /\ Catch(NoConnectionError)
                  /\ calls' = calls
             ELSE /\ pc' = drv
                  /\ calls' = Append(calls, Invocation(drv, q.sql, paramsOrEmpty(q), i))
                  /\ UNCHANGED << i, results, errors, success >>
    /\ UNCHANGED << op, inserted, sdkVars, storageVars, schemaVars, d1, pgEnv, pgPool, initDone, routingRules, outcome,
                    queries, batchResult >>

BatchPgResolves ==
    /\ pc = "postgres"
    /\ op = "batch"
    /\ \E result \in PgResults :
          /\ Push(pgResponse(result))
          /\ calls' = Settle(calls, TRUE, result)
    /\ UNCHANGED << op, inserted, sdkVars, storageVars, schemaVars, d1, pgEnv, pgPool, initDone, routingRules, sql, target, outcome,
                    queries, batchResult >>

BatchPgRejects ==
    /\ pc = "postgres"
    /\ op = "batch"
    /\ \E err \in PgErrors :
          /\ Catch(fromPostgresError(err))
          /\ calls' = Settle(calls, FALSE, err)
    /\ UNCHANGED << op, inserted, sdkVars, storageVars, schemaVars, d1, pgEnv, pgPool, initDone, routingRules, sql, target, outcome,
                    queries, batchResult >>

BatchD1Resolves ==
    /\ pc = "d1"
    /\ op = "batch"
    /\ \E result \in D1Results :
          /\ Push(d1Response(result))
          /\ calls' = Settle(calls, TRUE, result)
    /\ UNCHANGED << op, inserted, sdkVars, storageVars, schemaVars, d1, pgEnv, pgPool, initDone, routingRules, sql, target, outcome,
                    queries, batchResult >>

BatchD1Rejects ==
    /\ pc = "d1"
    /\ op = "batch"
    /\ \E err \in D1Errors :
          /\ Catch(fromD1Error(err))
          /\ calls' = Settle(calls, FALSE, err)
    /\ UNCHANGED << op, inserted, sdkVars, storageVars, schemaVars, d1, pgEnv, pgPool, initDone, routingRules, sql, target, outcome,
                    queries, batchResult >>

\* the loop has ended: return { results, success, errors }
BatchReturn ==
    /\ pc = "loop"
    /\ op = "batch"
    /\ i >= Len(queries)
    /\ batchResult' = Some([results |-> results, success |-> success,
                            errors |-> errorsOrUndefined(errors)])
    /\ pc' = "done"
    /\ UNCHANGED << op, inserted, sdkVars, storageVars, schemaVars, d1, pgEnv, pgPool, initDone, routingRules, sql, target, outcome,
                    queries, i, results, errors, success, calls >>

NextBatch ==
    \/ InitPostgres
    \/ BatchCall
    \/ BatchStart
    \/ BatchRoute
    \/ BatchPgResolves
    \/ BatchPgRejects
    \/ BatchD1Resolves
    \/ BatchD1Rejects
    \/ BatchReturn

SpecBatch == InitBatch /\ [][NextBatch]_vars

(***************************************************************************)
(* Properties of db.batch.  Statements are numbered from 0 as in the code;  *)
(* what happened to statement j is read from the driver log.                *)
(***************************************************************************)
BatchReturned == pc = "done" /\ IsSome(batchResult)

CallsOf(j) == {k \in DOMAIN calls : calls[k].stmt = j}

CallOf(j) == calls[CHOOSE k \in CallsOf(j) : TRUE]

\* statement j reached a driver and the driver resolved
Resolved(j) ==
    \E k \in CallsOf(j) : IsSome(calls[k].did) /\ Get(calls[k].did).ok

\* statement j raised: no driver was available, or the driver rejected
Raised(j) ==
    \/ CallsOf(j) = {}
    \/ \E k \in CallsOf(j) : IsSome(calls[k].did) /\ ~Get(calls[k].did).ok

DriverValue(j) == Get(CallOf(j).did).value

\* the rows the driver handed back for statement j
DriverRows(j) ==
    IF CallOf(j).engine = "postgres" THEN DriverValue(j).rows
    ELSE IF IsSome(DriverValue(j).results) THEN Get(DriverValue(j).results) ELSE <<>>

\* the error raised for statement j
RaisedError(j) ==
    IF CallsOf(j) = {} THEN NoConnectionError
    ELSE IF CallOf(j).engine = "postgres" THEN fromPostgresError(DriverValue(j))
    ELSE fromD1Error(DriverValue(j))

\* C8: a batch of n queries returns exactly n slots, and slot j is the outcome
\* of input query j: the response of the driver that executed query j when it
\* resolved, the zeroed response when query j raised.
C8_OneSlotPerInputInOrder ==
    BatchReturned =>
        LET r == Get(batchResult).results IN
        /\ Len(r) = Len(queries)
        /\ \A j \in 0..(Len(queries) - 1) :
              IF Resolved(j)
              THEN /\ Cardinality(CallsOf(j)) = 1
                   /\ CallOf(j).sql = queries[j + 1].sql
                   /\ r[j + 1].results = DriverRows(j)
                   /\ r[j + 1].meta.target = CallOf(j).engine
              ELSE /\ Raised(j)
                   /\ r[j + 1].results = <<>>
                   /\ r[j + 1].success = FALSE

C8_Witness ==
    /\ BatchReturned
    /\ Len(queries) = 3
    /\ Resolved(0) /\ Raised(1) /\ Resolved(2)
    /\ Get(batchResult).results[1].results = <<"row1">>
    /\ Get(batchResult).results[2] = ZeroedResponse
    /\ Get(batchResult).results[3].results = <<"row1">>
    /\ Get(batchResult).success = FALSE

\* C9: the overall success flag is the conjunction of the slots' success
\* flags (TRUE for an empty batch).
C9_SuccessIsConjunction ==
    BatchReturned =>
        LET r == Get(batchResult).results IN
        Get(batchResult).success = (\A k \in 1..Len(r) : r[k].success)

\* C10: the error list has exactly one entry per statement that raised, in
\* ascending index order, carrying the error raised for that statement, and
\* none for a statement that did not raise; it is absent when none raised.
C10_ErrorsListExact ==
    BatchReturned =>
        LET failed == {j \in 0..(Len(queries) - 1) : Raised(j)}
            e == Get(batchResult).errors
        IN IF failed = {}
           THEN e = None
           ELSE /\ IsSome(e)
                /\ Len(Get(e)) = Cardinality(failed)
                /\ \A k \in 1..Len(Get(e)) :
                      /\ Get(e)[k].index \in failed
                      /\ ~Resolved(Get(e)[k].index)
                      /\ Get(e)[k].error = RaisedError(Get(e)[k].index)
                /\ \A k \in 1..(Len(Get(e)) - 1) : Get(e)[k].index < Get(e)[k + 1].index

C10_Witness ==
    /\ BatchReturned
    /\ Len(queries) = 3
    /\ Resolved(0) /\ Raised(1) /\ Resolved(2)
    /\ IsSome(Get(batchResult).errors)
    /\ Len(Get(Get(batchResult).errors)) = 1
    /\ Get(Get(batchResult).errors)[1].index = 1
    /\ Get(Get(batchResult).errors)[1].error.code = DB_TABLE_NOT_FOUND

\* the engine determineTarget resolves for statement j
ResolvedTarget(j) == determineTarget(routingRules, pgPool, queries[j + 1].sql)

\* C11: the slot of every failed statement has empty rows, success = FALSE and
\* meta.target equal to the engine determineTarget resolves for the statement.
C11_FailedSlotNamesResolvedEngine ==
    BatchReturned =>
        \A j \in 0..(Len(queries) - 1) :
            Raised(j) =>
                /\ Get(batchResult).results[j + 1].results = <<>>
                /\ Get(batchResult).results[j + 1].success = FALSE
                /\ Get(batchResult).results[j + 1].meta.target = ResolvedTarget(j)

NoDriver == ~d1 /\ ~pgPool

\* C12 as stated: with neither driver configured a non-empty batch raises to
\* its caller instead of returning a BatchResult.
C12_NoDriverRaises ==
    (pc = "done" /\ NoDriver /\ Len(queries) > 0) => batchResult = None

\* C12 amended: batch always returns a BatchResult and raises nothing to its
\* caller; with neither driver configured the result has success = FALSE (for
\* a non-empty input), one zeroed slot per statement and one
\* DB_CONNECTION_FAILED entry per statement, and no driver is invoked.
C12_BatchAlwaysReturns ==
    /\ outcome = None
    /\ pc = "done" => IsSome(batchResult)
    /\ (pc = "done" /\ NoDriver) =>
          LET b == Get(batchResult) IN
          /\ calls = <<>>
          /\ b.success = (Len(queries) = 0)
          /\ Len(b.results) = Len(queries)
          /\ \A k \in 1..Len(queries) : b.results[k] = ZeroedResponse
          /\ Len(queries) > 0 =>
                /\ IsSome(b.errors)
                /\ Len(Get(b.errors)) = Len(queries)
                /\ \A k \in 1..Len(queries) :
                      /\ Get(b.errors)[k].index = k - 1
                      /\ Get(b.errors)[k].error.code = "DB_CONNECTION_FAILED"

C12_Witness ==
    /\ pc = "done" /\ NoDriver /\ pgEnv = "loadfail"
    /\ Len(queries) = 2
    /\ IsSome(batchResult)
    /\ Len(Get(Get(batchResult).errors)) = 2

\* a driver is usable for statement j
Usable(j) == d1 \/ (pgPool /\ ResolvedTarget(j) = "postgres")

\* C13: a failing statement does not abort the batch: every statement for
\* which a driver is usable is handed to a driver exactly once, in input order,
\* whatever happened to the statements before it, and the only statements
\* issued are the input statements (nothing is rolled back).
C13_FailureDoesNotAbort ==
    BatchReturned =>
        /\ \A j \in 0..(Len(queries) - 1) :
              Cardinality(CallsOf(j)) = (IF Usable(j) THEN 1 ELSE 0)
        /\ \A k \in 1..Len(calls) :
              /\ calls[k].stmt \in 0..(Len(queries) - 1)
              /\ calls[k].sql = queries[calls[k].stmt + 1].sql
              /\ IsSome(calls[k].did)
        /\ \A k \in 1..(Len(calls) - 1) : calls[k].stmt < calls[k + 1].stmt

C13_Witness ==
    /\ BatchReturned
    /\ Len(queries) = 3
    /\ CallsOf(0) # {} /\ Raised(0)
    /\ Resolved(1)
    /\ CallsOf(2) # {} /\ Raised(2)
    /\ Len(calls) = 3

(***************************************************************************)
(* db.query with the full range of driver errors.  The d1 call chain        *)
(* prepare(sql).bind(...params).all() may fail at any of its three steps;   *)
(* all three are inside the try block of routeQuery.                        *)
(***************************************************************************)
Code57014 == <<"5","7","0","1","4">>

PgColumnQty == <<"q","t","y">>

D1MsgNoSuchColumn ==
    <<"n","o"," ","s","u","c","h"," ","c","o","l","u","m","n",":"," ","q","t","y">>

D1MsgUpperCase ==
    <<"N","O"," ","S","U","C","H"," ","T","A","B","L","E",":"," ","w","i","d","g","e","t","s">>

D1MsgBoth ==
    <<"n","o"," ","s","u","c","h"," ","c","o","l","u","m","n",":"," ","w",".","i","d"," ","(","n","o"," ","s","u","c","h"," ","t","a","b","l","e",":"," ","w",")">>

PgCodesAll ==
    { Some(Code42P01), Some(Code42703), Some(Code28P01), Some(Code28000),
      Some(Code08006), Some(Code08003), Some(Code57014), Some(<<>>), None }

\* every shape of error pgPool.query may reject with
PgErrorsAll ==
    [code : PgCodesAll,
     message : {Some(PgMsgRelation), Some(PgMsgTimeout), None},
     table : {Some(PgTableWidgets), None},
     column : {Some(PgColumnQty), None}]

D1Steps == {"prepare", "bind", "all"}

\* every shape of error the d1 call chain may throw, and the step that threw
D1ErrorsAll ==
    [message : {Some(D1MsgNoSuchTable), Some(D1MsgNoSuchColumn), Some(D1MsgSyntax),
                Some(D1MsgUpperCase), Some(D1MsgBoth), Some(<<>>), None},
     step : D1Steps]

\* an exception as the driver threw it
NativeError(err) ==
    [name |-> "Error", code |-> "none", message |-> err.message, cause |-> None]

\* mutant: prepare(sql) is evaluated before the try block is entered
d1CatchAfterPrepare(err) ==
    IF err.step = "prepare" THEN Thrown(NativeError(err)) ELSE Thrown(fromD1Error(err))

\* catch (err) { throw DatabaseError.fromD1Error(err, ...) } around all three steps
d1Catch(err) == Thrown(fromD1Error(err))

\* catch (err) { throw DatabaseError.fromPostgresError(err, ...) }
pgCatch(err) == Thrown(fromPostgresError(err))

InitErr ==
    /\ d1 \in BOOLEAN
    /\ pgEnv \in {"none", "ok", "loadfail"}
    /\ pgPool = FALSE
    /\ initDone = (pgEnv = "none")
    /\ routingRules = <<>>
    /\ sql = <<>>
    /\ Idle

PgQueryRejectsAny ==
    /\ pc = "postgres"
    /\ op = "query"
    /\ \E err \in PgErrorsAll :
          /\ outcome' = Some(pgCatch(err))
          /\ calls' = Settle(calls, FALSE, err)
    /\ pc' = "done"
    /\ UNCHANGED << op, inserted, sdkVars, storageVars, schemaVars, d1, pgEnv, pgPool, initDone, routingRules, sql, target,
                    queries, i, results, errors, success, batchResult >>

D1CallThrowsAny ==
    /\ pc = "d1"
    /\ op = "query"
    /\ \E err \in D1ErrorsAll :
          /\ outcome' = Some(d1Catch(err))
          /\ calls' = Settle(calls, FALSE, err)
    /\ pc' = "done"
    /\ UNCHANGED << op, inserted, sdkVars, storageVars, schemaVars, d1, pgEnv, pgPool, initDone, routingRules, sql, target,
                    queries, i, results, errors, success, batchResult >>

NextErr ==
    \/ InitPostgres
    \/ QueryCall
    \/ RouteQuery
    \/ PgQueryResolves
    \/ D1AllResolves
    \/ PgQueryRejectsAny
    \/ D1CallThrowsAny

SpecErr == InitErr /\ [][NextErr]_vars

(***************************************************************************)
(* Properties of the error translation                                      *)
(***************************************************************************)
\* s contains w, letter for letter
Occurs(s, w) ==
    \E k \in 0..(Len(s) - Len(w)) : \A j \in 1..Len(w) : s[k + j] = w[j]

\* the call failed because the driver of the given engine failed
DriverFailed(engine) ==
    /\ Finished
    /\ Len(calls) = 1
    /\ calls[1].engine = engine
    /\ IsSome(calls[1].did)
    /\ ~Get(calls[1].did).ok

\* the error the driver threw, and the error query() raised
DriverErr == Get(calls[1].did).value

RaisedErr == Get(Get(outcome).error)

\* C17: a d1 error is classified by message substring ('no such table', else
\* 'no such column', else QueryFailed); the resulting message contains the
\* driver's message and the cause is the driver's message.
C17_D1ErrorBySubstring ==
    (DriverFailed("d1") /\ IsSome(DriverErr.message)) =>
        LET m == Get(DriverErr.message) IN
        /\ RaisedErr.code =
              (IF Occurs(m, <<"n","o"," ","s","u","c","h"," ","t","a","b","l","e">>)
               THEN "DB_TABLE_NOT_FOUND"
               ELSE IF Occurs(m, <<"n","o"," ","s","u","c","h"," ","c","o","l","u","m","n">>)
               THEN "DB_COLUMN_NOT_FOUND"
               ELSE "DB_QUERY_FAILED")
        /\ Occurs(RaisedErr.message, m)
        /\ RaisedErr.cause = Some(m)

C17_Witness ==
    /\ DriverFailed("d1")
    /\ DriverErr.message = Some(D1MsgNoSuchTable)
    /\ RaisedErr.code = "DB_TABLE_NOT_FOUND"
    /\ Occurs(RaisedErr.message, <<"w","i","d","g","e","t","s">>)
    /\ RaisedErr.cause = Some(D1MsgNoSuchTable)

\* C18: a postgres error is classified by its code; any other or missing code
\* gives QueryFailed with the driver's message as the message.
C18_PostgresErrorByCode ==
    DriverFailed("postgres") =>
        LET c == DriverErr.code IN
        /\ RaisedErr.code =
              (IF c = Some(<<"4","2","P","0","1">>) THEN "DB_TABLE_NOT_FOUND"
               ELSE IF c = Some(<<"4","2","7","0","3">>) THEN "DB_COLUMN_NOT_FOUND"
               ELSE IF c = Some(<<"2","8","P","0","1">>) \/ c = Some(<<"2","8","0","0","0">>) THEN "DB_AUTH_FAILED"
               ELSE IF c = Some(<<"0","8","0","0","6">>) \/ c = Some(<<"0","8","0","0","3">>) THEN "DB_CONNECTION_FAILED"
               ELSE "DB_QUERY_FAILED")
        /\ (RaisedErr.code = "DB_QUERY_FAILED" /\ IsSome(DriverErr.message))
              => RaisedErr.message = Get(DriverErr.message)

C18_Witness ==
    /\ DriverFailed("postgres")
    /\ DriverErr.code = Some(<<"2","8","0","0","0">>)
    /\ RaisedErr.code = "DB_AUTH_FAILED"

\* C19: every error raised because a driver call failed carries the driver's
\* original message in its cause field.
C19_CauseIsDriverMessage ==
    ((DriverFailed("postgres") \/ DriverFailed("d1")) /\ IsSome(DriverErr.message))
        => RaisedErr.cause = DriverErr.message

DatabaseKinds ==
    { "DB_CONNECTION_FAILED", "DB_QUERY_FAILED", "DB_TABLE_NOT_FOUND",
      "DB_COLUMN_NOT_FOUND", "DB_AUTH_FAILED", "DB_TRANSACTION_FAILED" }

\* C20: whenever query() fails, the caller gets a DatabaseError whose code is
\* a database taxonomy kind, whichever driver step threw.
C20_OnlyDatabaseErrorsEscape ==
    (Finished /\ Get(outcome).kind = "thrown") =>
        /\ RaisedErr.name = "DatabaseError"
        /\ RaisedErr.code \in DatabaseKinds

C20_Witness ==
    /\ DriverFailed("d1")
    /\ DriverErr.step = "prepare"
    /\ DriverErr.message = None
    /\ RaisedErr.name = "DatabaseError"
    /\ RaisedErr.code = "DB_QUERY_FAILED"

(***************************************************************************)
(* db.getSchema: what the two databases answer to the catalog queries       *)
(***************************************************************************)
MaxTables == 2

NameUsers == <<"u","s","e","r","s">>

NameOrderItems == <<"o","r","d","e","r","_","i","t","e","m","s">>

NameSqliteSequence == <<"s","q","l","i","t","e","_","s","e","q","u","e","n","c","e">>

NameSqliteData == <<"s","q","l","i","t","e","d","a","t","a">>

\* a declared column: notNull is the NOT NULL constraint, pkPos the 1-based
\* position of the column in the PRIMARY KEY (0 when it is not part of it)
Column(name, type, notNull, dflt, pkPos) ==
    [name |-> name, type |-> type, notNull |-> notNull, dflt |-> dflt, pkPos |-> pkPos]

\* declared tables of the embedded database; internal marks SQLite's own tables
D1Tables ==
    { [name |-> NameUsers, internal |-> FALSE,
       columns |-> << Column("id", "INTEGER", TRUE, None, 1),
                      Column("email", "TEXT", TRUE, None, 0),
                      Column("bio", "TEXT", FALSE, Some("''"), 0) >>],
      [name |-> NameOrderItems, internal |-> FALSE,
       columns |-> << Column("order_id", "INTEGER", TRUE, None, 1),
                      Column("item_id", "INTEGER", TRUE, None, 2),
                      Column("qty", "INTEGER", FALSE, Some("1"), 0) >>],
      [name |-> NameSqliteSequence, internal |-> TRUE,
       columns |-> << Column("name", "", FALSE, None, 0),
                      Column("seq", "", FALSE, None, 0) >>],
      [name |-> NameSqliteData, internal |-> FALSE,
       columns |-> << Column("k", "TEXT", TRUE, None, 1) >>] }

\* a database holds each table once
D1Catalogs ==
    UNION { { c \in [1..n -> D1Tables] : \A a, b \in 1..n : a # b => c[a] # c[b] }
            : n \in 0..MaxTables }

\* name LIKE 'sqlite_%' as SQLite evaluates it: letters compare without case,
\* _ stands for any one character, % for any characters
likeSqlitePattern(name) ==
    Len(name) >= 7 /\ toLowerCase(SubSeq(name, 1, 6)) = <<"s","q","l","i","t","e">>

\* rows of SELECT name FROM sqlite_master WHERE type='table' AND name NOT LIKE 'sqlite_%'
d1ListTables(catalog) ==
    LET kept == SelectSeq(catalog, LAMBDA tb : ~likeSqlitePattern(tb.name))
    IN [k \in 1..Len(kept) |-> [name |-> kept[k].name]]

\* rows of PRAGMA table_info(tableName)
d1TableInfo(catalog, tableName) ==
    LET tb == catalog[CHOOSE k \in 1..Len(catalog) : catalog[k].name = tableName]
    IN [k \in 1..Len(tb.columns) |->
          [name |-> tb.columns[k].name, type |-> tb.columns[k].type,
           notnull |-> IF tb.columns[k].notNull THEN 1 ELSE 0,
           dflt_value |-> tb.columns[k].dflt, pk |-> tb.columns[k].pkPos]]

PgColumnRows ==
    << [column_name |-> "id", data_type |-> "integer", is_nullable |-> "NO",
        column_default |-> None],
       [column_name |-> "email", data_type |-> "text", is_nullable |-> "YES",
        column_default |-> None] >>

PgAuditColumnRows ==
    << [column_name |-> "at", data_type |-> "timestamp", is_nullable |-> "NO",
        column_default |-> Some("now()")] >>

\* the remote database: tables of information_schema with their schema
PgCatalogs ==
    { <<>>,
      << [table_name |-> NameUsers, table_schema |-> "public", columns |-> PgColumnRows] >>,
      << [table_name |-> NameUsers, table_schema |-> "public", columns |-> PgColumnRows],
         [table_name |-> NameUsers, table_schema |-> "audit", columns |-> PgAuditColumnRows] >> }

\* rows of SELECT table_name FROM information_schema.tables WHERE table_schema = 'public'
pgListTables(catalog) ==
    LET kept == SelectSeq(catalog, LAMBDA tb : tb.table_schema = "public")
    IN [k \in 1..Len(kept) |-> [table_name |-> kept[k].table_name]]

\* rows of SELECT ... FROM information_schema.columns WHERE table_name = $1
RECURSIVE pgColumns(_, _)
pgColumns(catalog, tableName) ==
    IF catalog = <<>> THEN <<>>
    ELSE (IF Head(catalog).table_name = tableName THEN Head(catalog).columns ELSE <<>>)
         \o pgColumns(Tail(catalog), tableName)

(***************************************************************************)
(* db.getSchema: the code                                                   *)
(***************************************************************************)
HintPg == <<"p","g">>

HintPostgres == <<"p","o","s","t","g","r","e","s">>

\* the binding arguments tried: omitted, '', and four names
Bindings ==
    { None, Some(<<>>), Some(<<"D","B">>), Some(<<"c","a","c","h","e">>),
      Some(<<"P","G","_","M","A","I","N">>), Some(<<"m","y","-","P","o","s","t","g","r","e","s">>) }

\* mutant: the default prefers the embedded database (as the earlier class definition did)
getSchemaEngineD1First(b, pool, hasD1) ==
    LET isPg == /\ IsSome(b)
                /\ \/ includes(toLowerCase(Get(b)), HintPg)
                   \/ includes(toLowerCase(Get(b)), HintPostgres)
    IN IF IsSome(b) /\ Get(b) # <<>> /\ pool /\ isPg THEN "postgres"
       ELSE IF IsSome(b) /\ Get(b) # <<>> /\ hasD1 THEN "d1"
       ELSE IF hasD1 THEN "d1"
       ELSE IF pool THEN "postgres"
       ELSE "throw"

\* mutant: a binding that does not name Postgres is ignored
getSchemaEngineHintPgOnly(b, pool, hasD1) ==
    LET isPg == /\ IsSome(b)
                /\ \/ includes(toLowerCase(Get(b)), HintPg)
                   \/ includes(toLowerCase(Get(b)), HintPostgres)
    IN IF IsSome(b) /\ Get(b) # <<>> /\ pool /\ isPg THEN "postgres"
       ELSE IF pool THEN "postgres"
       ELSE IF hasD1 THEN "d1"
       ELSE "throw"

\* the engine getSchema introspects, or "throw"
getSchemaEngine(b, pool, hasD1) ==
    LET isPg == /\ IsSome(b)
                /\ \/ includes(toLowerCase(Get(b)), HintPg)
                   \/ includes(toLowerCase(Get(b)), HintPostgres)
    IN IF IsSome(b) /\ Get(b) # <<>> /\ pool /\ isPg THEN "postgres"
       ELSE IF IsSome(b) /\ Get(b) # <<>> /\ hasD1 THEN "d1"
       ELSE IF pool THEN "postgres"
       ELSE IF hasD1 THEN "d1"
       ELSE "throw"

\* the SchemaColumn built from a PRAGMA table_info row
d1Column(col) ==
    [name |-> col.name, type |-> col.type, nullable |-> (col.notnull = 0),
     defaultValue |-> col.dflt_value, isPrimaryKey |-> (col.pk = 1)]

\* the SchemaColumn built from an information_schema.columns row
pgColumn(col) ==
    [name |-> col.column_name, type |-> col.data_type,
     nullable |-> (col.is_nullable = "YES"), defaultValue |-> col.column_default]

SchemaTable(name, columns, database) ==
    [name |-> name, columns |-> columns, database |-> database]

SqlListD1 == "SELECT name FROM sqlite_master WHERE type='table' AND name NOT LIKE 'sqlite_%'"

SqlListPg == "SELECT table_name FROM information_schema.tables WHERE table_schema = 'public'"

SqlTableInfo == "PRAGMA table_info"

SqlColumnsPg == "SELECT ... FROM information_schema.columns WHERE table_name = $1"

SchemaInfo(tbls, database) == [tables |-> tbls, database |-> database]

InitSchema ==
    /\ d1 \in BOOLEAN
    /\ pgEnv \in {"none", "ok", "loadfail"}
    /\ pgPool = FALSE
    /\ initDone = (pgEnv = "none")
    /\ routingRules = <<>>
    /\ sql = <<>>
    /\ d1Catalog \in (IF d1 THEN D1Catalogs ELSE {<<>>})
    /\ pgCatalog \in (IF pgEnv = "ok" THEN PgCatalogs ELSE {<<>>})
    /\ pc = "idle" /\ target = "none" /\ outcome = None
    /\ queries = <<>> /\ i = 0 /\ results = <<>> /\ errors = <<>>
    /\ success = TRUE /\ batchResult = None /\ calls = <<>>
    /\ binding = None /\ tableRows = <<>> /\ tables = <<>> /\ schemaInfo = None
    /\ sdkServer = None /\ sdkClient = None /\ inits = 0 /\ accessed = None
    /\ storage = FALSE /\ projectId = None /\ key = <<>>
    /\ op = "none" /\ inserted = routingRules

\* db.getSchema(binding) is called and awaits _initPromise
SchemaCall ==
    /\ pc = "idle"
    /\ \E b \in Bindings : binding' = b
    /\ pc' = "awaitInit"
    /\ op' = "getSchema"
    /\ UNCHANGED << d1Catalog, pgCatalog, tableRows, tables, schemaInfo, outcome, calls,
                    inserted, sdkVars, storageVars, d1, pgEnv, pgPool, initDone, routingRules, sql, target,
                    queries, i, results, errors, success, batchResult >>

\* after the await: the engine is selected and its table-listing query is sent,
\* or DB_CONNECTION_FAILED is thrown
SchemaSelect ==
    /\ pc = "awaitInit"
    /\ op = "getSchema"
    /\ awaitInitPromise(initDone)
    /\ LET engine == getSchemaEngine(binding, pgPool, d1)
       IN \/ /\ engine = "postgres"
             /\ calls' = Append(calls, Invocation("postgres", SqlListPg, <<>>, 0))
             /\ pc' = "pgList"
             /\ UNCHANGED outcome
          \/ /\ engine = "d1"
             /\ calls' = Append(calls, Invocation("d1", SqlListD1, <<>>, 0))
             /\ pc' = "d1List"
             /\ UNCHANGED outcome
          \/ /\ engine = "throw"
             /\ outcome' = Some(Thrown(NoConnectionError))
             /\ pc' = "done"
             /\ UNCHANGED calls
    /\ UNCHANGED << d1Catalog, pgCatalog, binding, tableRows, tables, schemaInfo,
                    op, inserted, sdkVars, storageVars, d1, pgEnv, pgPool, initDone, routingRules, sql, target,
                    queries, i, results, errors, success, batchResult >>

\* introspectD1: the listing resolved; the loop asks for the first table, or
\* returns when there is none
D1ListResolves ==
    /\ pc = "d1List"
    /\ op = "getSchema"
    /\ LET rows == d1ListTables(d1Catalog)
           settled == Settle(calls, TRUE, rows)
       IN /\ tableRows' = rows
          /\ tables' = <<>>
          /\ IF rows = <<>>
             THEN /\ schemaInfo' = Some(SchemaInfo(<<>>, "d1"))
                  /\ calls' = settled
                  /\ pc' = "done"
             ELSE /\ calls' = Append(settled,
                                     Invocation("d1", SqlTableInfo, <<rows[1].name>>, 1))
                  /\ pc' = "d1Info"
                  /\ UNCHANGED schemaInfo
    /\ UNCHANGED << d1Catalog, pgCatalog, binding, outcome,
                    op, inserted, sdkVars, storageVars, d1, pgEnv, pgPool, initDone, routingRules, sql, target,
                    queries, i, results, errors, success, batchResult >>

\* introspectD1: PRAGMA table_info resolved for the current table; the table is
\* pushed, and the loop asks for the next table or returns
D1InfoResolves ==
    /\ pc = "d1Info"
    /\ op = "getSchema"
    /\ LET tableName == tableRows[Len(tables) + 1].name
           columns == d1TableInfo(d1Catalog, tableName)
           pushed == Append(tables,
                            SchemaTable(tableName,
                                        [k \in 1..Len(columns) |-> d1Column(columns[k])],
                                        "d1"))
           settled == Settle(calls, TRUE, columns)
       IN /\ tables' = pushed
          /\ IF Len(pushed) = Len(tableRows)
             THEN /\ schemaInfo' = Some(SchemaInfo(pushed, "d1"))
                  /\ calls' = settled
                  /\ pc' = "done"
             ELSE /\ calls' = Append(settled,
                                     Invocation("d1", SqlTableInfo,
                                                <<tableRows[Len(pushed) + 1].name>>,
                                                Len(pushed) + 1))
                  /\ pc' = "d1Info"
                  /\ UNCHANGED schemaInfo
    /\ UNCHANGED << d1Catalog, pgCatalog, binding, tableRows, outcome,
                    op, inserted, sdkVars, storageVars, d1, pgEnv, pgPool, initDone, routingRules, sql, target,
                    queries, i, results, errors, success, batchResult >>

\* introspectD1 has no try/catch: a rejected query leaves getSchema as thrown
SchemaD1Rejects ==
    /\ pc \in {"d1List", "d1Info"}
    /\ op = "getSchema"
    /\ \E err \in D1Errors :
          /\ calls' = Settle(calls, FALSE, err)
          /\ outcome' = Some(Thrown(NativeError(err)))
    /\ pc' = "done"
    /\ UNCHANGED << d1Catalog, pgCatalog, binding, tableRows, tables, schemaInfo,
                    op, inserted, sdkVars, storageVars, d1, pgEnv, pgPool, initDone, routingRules, sql, target,
                    queries, i, results, errors, success, batchResult >>

\* introspectPostgres: the listing resolved
PgListResolves ==
    /\ pc = "pgList"
    /\ op = "getSchema"
    /\ LET rows == pgListTables(pgCatalog)
           settled == Settle(calls, TRUE, rows)
       IN /\ tableRows' = rows
          /\ tables' = <<>>
          /\ IF rows = <<>>
             THEN /\ schemaInfo' = Some(SchemaInfo(<<>>, "postgres"))
                  /\ calls' = settled
                  /\ pc' = "done"
             ELSE /\ calls' = Append(settled,
                                     Invocation("postgres", SqlColumnsPg,
                                                <<rows[1].table_name>>, 1))
                  /\ pc' = "pgColumns"
                  /\ UNCHANGED schemaInfo
    /\ UNCHANGED << d1Catalog, pgCatalog, binding, outcome,
                    op, inserted, sdkVars, storageVars, d1, pgEnv, pgPool, initDone, routingRules, sql, target,
                    queries, i, results, errors, success, batchResult >>

\* introspectPostgres: the columns query resolved for the current table
PgColumnsResolves ==
    /\ pc = "pgColumns"
    /\ op = "getSchema"
    /\ LET tableName == tableRows[Len(tables) + 1].table_name
           columns == pgColumns(pgCatalog, tableName)
           pushed == Append(tables,
                            SchemaTable(tableName,
                                        [k \in 1..Len(columns) |-> pgColumn(columns[k])],
                                        "postgres"))
           settled == Settle(calls, TRUE, columns)
       IN /\ tables' = pushed
          /\ IF Len(pushed) = Len(tableRows)
             THEN /\ schemaInfo' = Some(SchemaInfo(pushed, "postgres"))
                  /\ calls' = settled
                  /\ pc' = "done"
             ELSE /\ calls' = Append(settled,
                                     Invocation("postgres", SqlColumnsPg,
                                                <<tableRows[Len(pushed) + 1].table_name>>,
                                                Len(pushed) + 1))
                  /\ pc' = "pgColumns"
                  /\ UNCHANGED schemaInfo
    /\ UNCHANGED << d1Catalog, pgCatalog, binding, tableRows, outcome,
                    op, inserted, sdkVars, storageVars, d1, pgEnv, pgPool, initDone, routingRules, sql, target,
                    queries, i, results, errors, success, batchResult >>

\* introspectPostgres has no try/catch either
SchemaPgRejects ==
    /\ pc \in {"pgList", "pgColumns"}
    /\ op = "getSchema"
    /\ \E err \in PgErrors :
          /\ calls' = Settle(calls, FALSE, err)
          /\ outcome' = Some(Thrown(NativeError(err)))
    /\ pc' = "done"
    /\ UNCHANGED << d1Catalog, pgCatalog, binding, tableRows, tables, schemaInfo,
                    op, inserted, sdkVars, storageVars, d1, pgEnv, pgPool, initDone, routingRules, sql, target,
                    queries, i, results, errors, success, batchResult >>

NextSchema ==
    \/ InitPostgres
    \/ SchemaCall
    \/ SchemaSelect
    \/ D1ListResolves
    \/ D1InfoResolves
    \/ SchemaD1Rejects
    \/ PgListResolves
    \/ PgColumnsResolves
    \/ SchemaPgRejects

SpecSchema == InitSchema /\ [][NextSchema]_vars

(***************************************************************************)
(* Properties of db.getSchema, stated on the driver log and on what the     *)
(* caller receives                                                          *)
(***************************************************************************)
SchemaFinished == pc = "done" /\ (IsSome(schemaInfo) \/ IsSome(outcome))

SchemaReturned == pc = "done" /\ IsSome(schemaInfo)

\* the engine whose catalog was queried, "none" when no driver was called
Introspected == IF calls = <<>> THEN "none" ELSE calls[1].engine

OneEngineOnly == \A k \in DOMAIN calls : calls[k].engine = Introspected

\* the engine getSchema() with no hint prefers for the configured drivers
NoHintEngine == IF pgPool THEN "postgres" ELSE IF d1 THEN "d1" ELSE "none"

NamePg == <<"p","g">>

NamePostgres == <<"p","o","s","t","g","r","e","s">>

\* a non-empty hint that names the remote family nowhere
UnmatchedHint ==
    /\ IsSome(binding)
    /\ Get(binding) # <<>>
    /\ ~ContainsAnyCase(Get(binding), NamePg)
    /\ ~ContainsAnyCase(Get(binding), NamePostgres)

\* C14 (as stated): a non-empty hint that matches neither engine family makes
\* getSchema introspect the same engine as getSchema() with no hint, for every
\* combination of configured drivers.
C14_UnmatchedHintIsDefault ==
    (SchemaFinished /\ UnmatchedHint) => Introspected = NoHintEngine

\* C14 (amended): a non-empty hint that names the remote family nowhere makes
\* getSchema introspect the embedded engine whenever an embedded driver is
\* configured; only without one does it introspect what getSchema() with no
\* hint does (the remote engine if configured, else DB_CONNECTION_FAILED).
C14_UnmatchedHintPrefersEmbedded ==
    (SchemaFinished /\ UnmatchedHint) =>
        /\ OneEngineOnly
        /\ d1 => Introspected = "d1"
        /\ ~d1 => Introspected = NoHintEngine
        /\ (~d1 /\ ~pgPool) => FailedNoConnection

C14_Witness ==
    /\ SchemaReturned
    /\ UnmatchedHint
    /\ d1 /\ pgPool
    /\ Introspected = "d1"
    /\ Get(schemaInfo).tables # <<>>

\* C15: getSchema() with no hint introspects the remote engine when a remote
\* driver is configured, otherwise the embedded engine when one is configured,
\* and fails with DB_CONNECTION_FAILED when neither is; the returned
\* SchemaInfo.database names the engine that was introspected.
C15_NoHintDefault ==
    (SchemaFinished /\ binding = None) =>
        /\ OneEngineOnly
        /\ pgPool => Introspected = "postgres"
        /\ (~pgPool /\ d1) => Introspected = "d1"
        /\ (~pgPool /\ ~d1) => FailedNoConnection
        /\ IsSome(schemaInfo) =>
              /\ Get(schemaInfo).database = Introspected
              /\ \A k \in DOMAIN Get(schemaInfo).tables :
                    Get(schemaInfo).tables[k].database = Introspected

C15_Witness ==
    /\ SchemaReturned
    /\ binding = None
    /\ d1 /\ pgPool
    /\ d1Catalog # <<>>
    /\ Get(schemaInfo).database = "postgres"
    /\ Get(schemaInfo).tables # <<>>

\* the user tables of the embedded catalog, in catalog order
UserTables == SelectSeq(d1Catalog, LAMBDA tb : ~tb.internal)

\* C16: getSchema() on an embedded-only configuration returns one SchemaTable
\* for every user table of the catalog (internal tables excluded), in catalog
\* order, and for every column nullable is true exactly when the column is
\* declared nullable and isPrimaryKey is true exactly when the column belongs
\* to the declared primary key, at any position within it.
C16_EmbeddedSchemaMatchesDeclared ==
    (SchemaReturned /\ binding = None /\ d1 /\ ~pgPool) =>
        LET got == Get(schemaInfo).tables
        IN /\ Len(got) = Len(UserTables)
           /\ \A k \in DOMAIN got :
                 /\ got[k].name = UserTables[k].name
                 /\ Len(got[k].columns) = Len(UserTables[k].columns)
                 /\ \A c \in DOMAIN got[k].columns :
                       /\ got[k].columns[c].name = UserTables[k].columns[c].name
                       /\ got[k].columns[c].nullable = ~UserTables[k].columns[c].notNull
                       /\ got[k].columns[c].isPrimaryKey =
                             (UserTables[k].columns[c].pkPos > 0)

(***************************************************************************)
(* The unified sdk singleton                                                *)
(***************************************************************************)
MaxInits == 3

\* the variables of one AerostackServer's db operations
dbVars == << d1, pgEnv, pgPool, initDone, routingRules, pc, sql, target, outcome,
             queries, i, results, errors, success, batchResult, calls, op, inserted >>

\* arguments of sdk.init: client configs, Workers env objects (without a
\* projectSlug), a bare project slug string, and null
SdkConfigs ==
    { [type |-> "object", projectSlug |-> Some("my-project"), DB |-> FALSE],
      [type |-> "object", projectSlug |-> Some("other-project"), DB |-> FALSE],
      [type |-> "object", projectSlug |-> None, DB |-> TRUE],
      [type |-> "object", projectSlug |-> None, DB |-> FALSE],
      [type |-> "string", projectSlug |-> None, DB |-> FALSE],
      [type |-> "null", projectSlug |-> None, DB |-> FALSE] }

ServerAccessors == {"db", "cache", "queue", "storage", "ai", "services"}

ClientAccessors == {"auth"}

MsgSdkNotInitialized == "SDK not initialized"

\* sdk.init(config): the fields after the call; reading a property of null throws
sdkInit(config, server, client) ==
    IF config.type = "null" THEN [server |-> server, client |-> client, threw |-> TRUE]
    ELSE IF config.type = "object" /\ IsSome(config.projectSlug)
         THEN [server |-> server, client |-> Some(config), threw |-> FALSE]
         ELSE [server |-> Some(config), client |-> client, threw |-> FALSE]

\* a getter of sdk: throws 'SDK not initialized...' or returns the member
sdkGet(name, server, client) ==
    IF name \in ServerAccessors
    THEN (IF server = None
          THEN [name |-> name, threw |-> Some(MsgSdkNotInitialized)]
          ELSE [name |-> name, threw |-> None])
    ELSE (IF client = None
          THEN [name |-> name, threw |-> Some(MsgSdkNotInitialized)]
          ELSE [name |-> name, threw |-> None])

InitSdk ==
    /\ d1 = FALSE
    /\ pgEnv = "none"
    /\ pgPool = FALSE
    /\ initDone = TRUE
    /\ routingRules = <<>>
    /\ sql = <<>>
    /\ Idle

SdkInit ==
    /\ inits < MaxInits
    /\ \E config \in SdkConfigs :
          LET after == sdkInit(config, sdkServer, sdkClient)
          IN /\ sdkServer' = after.server
             /\ sdkClient' = after.client
    /\ inits' = inits + 1
    /\ accessed' = None
    /\ UNCHANGED << storageVars, schemaVars, dbVars >>

SdkAccess ==
    /\ \E name \in ServerAccessors \cup ClientAccessors :
          accessed' = Some(sdkGet(name, sdkServer, sdkClient))
    /\ UNCHANGED << sdkServer, sdkClient, inits, storageVars, schemaVars, dbVars >>

NextSdk == SdkInit \/ SdkAccess

SpecSdk == InitSdk /\ [][NextSdk]_vars

ServerUsable == IsSome(sdkServer)

ClientUsable == IsSome(sdkClient)

\* C21: after any sequence of sdk.init calls the singleton never holds a client
\* and a server instance at the same time, and an accessor of a mode that was
\* not initialised throws 'SDK not initialized'.
C21_AtMostOneMode ==
    /\ ~(ServerUsable /\ ClientUsable)
    /\ IsSome(accessed) =>
          LET a == Get(accessed)
          IN /\ (a.name \in ServerAccessors /\ ~ServerUsable) =>
                    a.threw = Some(MsgSdkNotInitialized)
             /\ (a.name \in ClientAccessors /\ ~ClientUsable) =>
                    a.threw = Some(MsgSdkNotInitialized)

(***************************************************************************)
(* Further properties of db.query                                           *)
(***************************************************************************)
\* the call went to exactly one driver, the embedded one, with the caller's text
RanOnEmbeddedOnce ==
    /\ Len(calls) = 1
    /\ calls[1].engine = "d1"
    /\ calls[1].sql = sql
    /\ IsSome(calls[1].did)

\* C22: when determineTarget selects remote but no remote driver is configured
\* and an embedded driver is, query() executes the statement on the embedded
\* driver and returns its response with meta.target = d1; it does not fail for
\* want of the remote driver.
C22_RemoteSelectedRunsEmbedded ==
    (Finished /\ target = "postgres" /\ ~pgPool /\ d1) =>
        /\ RanOnEmbeddedOnce
        /\ ThrownCode # "DB_CONNECTION_FAILED"
        /\ Get(calls[1].did).ok =>
              /\ Get(outcome).kind = "returned"
              /\ Get(Get(outcome).response).meta.target = "d1"
              /\ Get(Get(outcome).response).results =
                    OrElse(Get(calls[1].did).value.results, <<>>)

C22_Witness ==
    /\ Finished
    /\ target = "postgres" /\ ~pgPool /\ d1
    /\ pgEnv = "none"
    /\ Get(outcome).kind = "returned"
    /\ Get(Get(outcome).response).meta.target = "d1"
    /\ Get(Get(outcome).response).results # <<>>

\* C23: a single query() call invokes at most one driver, at most once: a
\* statement that failed on the remote driver is not retried on either driver,
\* and the failure is thrown to the caller of that call.
C23_AtMostOneExecution ==
    /\ Len(calls) <= 1
    /\ \A k \in DOMAIN calls : calls[k].sql = sql
    /\ (Finished /\ calls # <<>> /\ ~Get(calls[1].did).ok) =>
          /\ Get(outcome).kind = "thrown"
          /\ Get(Get(outcome).error).name = "DatabaseError"

C23_Witness ==
    /\ Finished
    /\ d1
    /\ Len(calls) = 1
    /\ calls[1].engine = "postgres"
    /\ ~Get(calls[1].did).ok
    /\ Get(outcome).kind = "thrown"

(***************************************************************************)
(* Further properties of db.batch                                           *)
(***************************************************************************)
\* driver calls that were started and have not yet returned or failed
InFlight == {k \in DOMAIN calls : calls[k].did = None}

\* C24: batch executes its statements one after another in input order: the
\* driver call of a statement is started only when every earlier driver call
\* has returned or failed, so no two statements of a batch are in flight.
C24_OneStatementInFlight ==
    /\ Cardinality(InFlight) <= 1
    /\ \A k \in InFlight : k = Len(calls)
    /\ \A a, b \in DOMAIN calls : a < b => calls[a].stmt < calls[b].stmt
    /\ \A k \in DOMAIN calls : calls[k].sql = queries[calls[k].stmt + 1].sql

C24_Witness ==
    /\ Len(calls) >= 2
    /\ InFlight = {Len(calls)}
    /\ calls[1].stmt = 0
    /\ calls[Len(calls)].stmt > 0

(***************************************************************************)
(* The order in which determineTarget meets the routing rules               *)
(***************************************************************************)
DigitValue ==
    [c \in {"0", "1", "2", "3", "4", "5", "6", "7", "8", "9"} |->
        CASE c = "0" -> 0 [] c = "1" -> 1 [] c = "2" -> 2 [] c = "3" -> 3 [] c = "4" -> 4
          [] c = "5" -> 5 [] c = "6" -> 6 [] c = "7" -> 7 [] c = "8" -> 8 [] c = "9" -> 9]

\* a property key that is an array index: decimal digits with no leading zero
IsArrayIndex(name) ==
    /\ name # <<>>
    /\ \A k \in DOMAIN name : name[k] \in DOMAIN DigitValue
    /\ (Len(name) > 1 => name[1] # "0")

RECURSIVE ToNumber(_)
ToNumber(name) ==
    IF name = <<>> THEN 0
    ELSE 10 * ToNumber(SubSeq(name, 1, Len(name) - 1)) + DigitValue[name[Len(name)]]

\* Object.entries of an object whose properties were created in the order of
\* pairs: array-index keys first, in ascending numeric order, then the other
\* string keys in creation order
ObjectEntries(pairs) ==
    SortSeq(SelectSeq(pairs, LAMBDA r : IsArrayIndex(r.table)),
            LAMBDA a, b : ToNumber(a.table) < ToNumber(b.table))
    \o SelectSeq(pairs, LAMBDA r : ~IsArrayIndex(r.table))

TableYear == <<"2","0","2","4">>

TableTen == <<"1","0">>

FragYear == <<" ","W","H","E","R","E"," ","y","e","a","r"," ","="," ","2","0","2","4">>

FragLimit == <<" ","L","I","M","I","T"," ","1","0">>

RuleTexts ==
    { FragUsers, FragUsers \o FragOrders, FragUsers \o FragYear, FragUsers \o FragLimit,
      FragUsers \o FragYear \o FragLimit, FragUsers \o FragOrders \o FragLimit,
      FragHintD1 \o FragUsers \o FragYear, FragUsers \o FragJoin \o FragOrders }

\* routing.tables literals: up to MaxRules distinct keys, written in any order
InsertedRules ==
    LET names == {TableUsers, TableOrders, TableYear, TableTen}
        pairs == [table : names, target : Targets]
    IN UNION { { r \in [1..n -> pairs] :
                   \A a, b \in 1..n : a # b => r[a].table # r[b].table }
               : n \in 0..MaxRules }

InitRules ==
    /\ d1 = TRUE
    /\ pgPool \in BOOLEAN
    /\ pgEnv = IF pgPool THEN "ok" ELSE "none"
    /\ initDone = TRUE
    /\ inserted \in InsertedRules
    /\ routingRules = ObjectEntries(inserted)
    /\ sql \in RuleTexts
    /\ pc = "idle" /\ target = "none" /\ outcome = None
    /\ queries = <<>> /\ i = 0 /\ results = <<>> /\ errors = <<>>
    /\ success = TRUE /\ batchResult = None /\ calls = <<>>
    /\ d1Catalog = <<>> /\ pgCatalog = <<>>
    /\ binding = None /\ tableRows = <<>> /\ tables = <<>> /\ schemaInfo = None
    /\ sdkServer = None /\ sdkClient = None /\ inits = 0 /\ accessed = None
    /\ storage = FALSE /\ projectId = None /\ key = <<>>
    /\ op = "none"

NextRules == DetermineTarget

SpecRules == InitRules /\ [][NextRules]_vars

\* the rules, in insertion order, whose table name occurs in the SQL text
InsertedOccurring == {k \in DOMAIN inserted : ContainsAnyCase(sql, inserted[k].table)}

FirstInserted == CHOOSE k \in InsertedOccurring : \A j \in InsertedOccurring : k <= j

\* C25: when the SQL text (with no override directive) contains the table names
\* of several rules with different targets, determineTarget returns the target
\* of the rule that comes first in the insertion order of the mapping, wherever
\* the names occur in the text.
C25_FirstInsertedRuleWins ==
    (Decided /\ ~HasRemoteDirective /\ ~HasLocalDirective /\ InsertedOccurring # {}) =>
        target = inserted[FirstInserted].target

(***************************************************************************)
(* Further properties of db.getSchema                                       *)
(***************************************************************************)
\* a catalog query of the getSchema call was rejected by its driver
SchemaDriverFailed ==
    /\ SchemaFinished
    /\ \E k \in DOMAIN calls : IsSome(calls[k].did) /\ ~Get(calls[k].did).ok

\* C26: a driver failure during getSchema (the table-listing query or a
\* per-table column query, on either engine) reaches the caller as a
\* DatabaseError carrying a taxonomy kind, not as the driver's own exception.
C26_SchemaFailureIsDatabaseError ==
    SchemaDriverFailed =>
        /\ IsSome(outcome)
        /\ Get(outcome).kind = "thrown"
        /\ Get(Get(outcome).error).name = "DatabaseError"
        /\ Get(Get(outcome).error).code \in DatabaseKinds

(***************************************************************************)
(* The three db operations against the asynchronous Postgres initialisation *)
(***************************************************************************)
InitCalls ==
    /\ d1 \in BOOLEAN
    /\ pgEnv \in {"none", "ok", "loadfail"}
    /\ pgPool = FALSE
    /\ initDone = (pgEnv = "none")
    /\ routingRules \in BatchRuleLists
    /\ inserted = routingRules
    /\ sql = <<>>
    /\ d1Catalog = (IF d1 THEN << CHOOSE tb \in D1Tables : tb.name = NameUsers >> ELSE <<>>)
    /\ pgCatalog = (IF pgEnv = "ok"
                    THEN << [table_name |-> NameUsers, table_schema |-> "public",
                             columns |-> PgColumnRows] >>
                    ELSE <<>>)
    /\ pc = "idle" /\ target = "none" /\ outcome = None
    /\ queries = <<>> /\ i = 0 /\ results = <<>> /\ errors = <<>>
    /\ success = TRUE /\ batchResult = None /\ calls = <<>>
    /\ binding = None /\ tableRows = <<>> /\ tables = <<>> /\ schemaInfo = None
    /\ sdkServer = None /\ sdkClient = None /\ inits = 0 /\ accessed = None
    /\ storage = FALSE /\ projectId = None /\ key = <<>>
    /\ op = "none"

NextCalls ==
    \/ InitPostgres
    \/ QueryCall
    \/ RouteQuery
    \/ PgQueryResolves
    \/ PgQueryRejects
    \/ D1AllResolves
    \/ D1AllRejects
    \/ BatchCall
    \/ BatchStart
    \/ BatchRoute
    \/ BatchPgResolves
    \/ BatchPgRejects
    \/ BatchD1Resolves
    \/ BatchD1Rejects
    \/ BatchReturn
    \/ SchemaCall
    \/ SchemaSelect
    \/ D1ListResolves
    \/ D1InfoResolves
    \/ SchemaD1Rejects
    \/ PgListResolves
    \/ PgColumnsResolves
    \/ SchemaPgRejects

SpecCalls == InitCalls /\ [][NextCalls]_vars

\* the remote driver handle once the initialisation has finished
PoolAfterInit == (pgEnv = "ok")

\* the text of the statement a driver call belongs to
StatementOf(k) == IF op = "batch" THEN queries[calls[k].stmt + 1].sql ELSE sql

\* the engine the operation uses when it is issued after the initialisation
EngineAfterInit(k) ==
    IF op = "getSchema"
    THEN getSchemaEngine(binding, PoolAfterInit, d1)
    ELSE routeDriver(determineTarget(routingRules, PoolAfterInit, StatementOf(k)),
                     PoolAfterInit, d1)

\* C27: no db.query, db.getSchema or db.batch call reads the remote driver
\* handle before the initialisation started by the constructor has finished:
\* under every interleaving, every driver call of an operation goes to the
\* engine the same operation would use when issued after the initialisation.
C27_RoutedAsAfterInit ==
    /\ pc \notin {"idle", "awaitInit"} => initDone
    /\ initDone => pgPool = PoolAfterInit
    /\ \A k \in DOMAIN calls : calls[k].engine = EngineAfterInit(k)
    /\ (pc = "done" /\ op \in {"query", "getSchema"} /\ calls = <<>>) =>
          EngineAfterInit(1) = "throw"

C27_Witness ==
    /\ pgEnv = "ok"
    /\ op = "getSchema"
    /\ pc = "done"
    /\ calls # <<>>
    /\ calls[1].engine = "postgres"

\* an operation ended for want of a database connection
ConnectionFailureSeen ==
    \/ ThrownCode = "DB_CONNECTION_FAILED"
    \/ \E k \in DOMAIN errors : errors[k].error.code = "DB_CONNECTION_FAILED"

\* C28: when a connection string is configured but the remote driver fails to
\* load, the initialisation still settles, the remote driver stays absent, and
\* every statement (also one whose target is remote) runs on the embedded
\* driver when one is configured; no operation fails for the load failure.
C28_LoadFailureFallsBack ==
    pgEnv = "loadfail" =>
        /\ ~pgPool
        /\ pc \notin {"idle", "awaitInit"} => initDone
        /\ \A k \in DOMAIN calls : calls[k].engine = "d1"
        /\ d1 => ~ConnectionFailureSeen
        /\ (d1 /\ pc = "done" /\ op \in {"query", "getSchema"}) => calls # <<>>
        /\ (d1 /\ pc = "done" /\ op = "batch") =>
              \A j \in 0..(Len(queries) - 1) : CallsOf(j) # {}

C28_Witness ==
    /\ pgEnv = "loadfail"
    /\ op = "query"
    /\ Finished
    /\ target = "postgres"
    /\ Get(outcome).kind = "returned"
    /\ calls[1].engine = "d1"

\* the engine db.query uses when nothing but the configured drivers decides
EngineByDrivers == IF pgPool THEN "postgres" ELSE IF d1 THEN "d1" ELSE "none"

\* C29: with no routing rules and no directive in the SQL, the engine on which
\* query() executes depends only on the configured drivers (remote when a
\* remote driver is configured, otherwise embedded), not on whether the text
\* holds a complexity keyword.
C29_KeywordDoesNotChooseEngine ==
    (op = "query" /\ Finished /\ routingRules = <<>>
       /\ ~HasRemoteDirective /\ ~HasLocalDirective) =>
        /\ Len(calls) <= 1
        /\ (IF calls = <<>> THEN "none" ELSE calls[1].engine) = EngineByDrivers

C29_Witness ==
    /\ op = "query" /\ Finished /\ routingRules = <<>>
    /\ ~HasRemoteDirective /\ ~HasLocalDirective
    /\ HasKeyword
    /\ target = "postgres"
    /\ ~pgPool
    /\ calls # <<>>
    /\ calls[1].engine = "d1"

(***************************************************************************)
(* storage: resolveKey, upload, getUrl, delete                              *)
(***************************************************************************)
MaxKeyParts == 2

PrefixProjects == <<"p","r","o","j","e","c","t","s","/">>

InfixMedia == <<"/","m","e","d","i","a","/">>

Slash == <<"/">>

BaseUrl == <<"h","t","t","p","s",":","/","/","s","t","o","r","a","g","e",".","a","e","r","o","s","t","a","c","k",".","a","i","/">>

MsgNotConfigured == <<"R","2"," ","s","t","o","r","a","g","e"," ","n","o","t"," ","c","o","n","f","i","g","u","r","e","d">>

MsgUploadFailed == <<"F","a","i","l","e","d"," ","t","o"," ","u","p","l","o","a","d"," ","f","i","l","e",":"," ">>

MsgDeleteFailed == <<"F","a","i","l","e","d"," ","t","o"," ","d","e","l","e","t","e"," ","f","i","l","e",":"," ">>

STORAGE_NOT_CONFIGURED == "STORAGE_NOT_CONFIGURED"

STORAGE_UPLOAD_FAILED == "STORAGE_UPLOAD_FAILED"

STORAGE_DELETE_FAILED == "STORAGE_DELETE_FAILED"

StorageError(code, message, cause) ==
    [name |-> "StorageError", code |-> code, message |-> message, cause |-> cause]

\* String.prototype.startsWith
startsWith(s, w) == Len(s) >= Len(w) /\ SubSeq(s, 1, Len(w)) = w

\* resolveKey(key) for this._projectId = pid
resolveKey(pid, k) ==
    IF IsSome(pid) /\ Get(pid) # <<>> /\ ~startsWith(k, PrefixProjects)
    THEN LET cleanKey == IF startsWith(k, Slash) THEN SubSeq(k, 2, Len(k)) ELSE k
         IN PrefixProjects \o Get(pid) \o InfixMedia \o cleanKey
    ELSE k

ProjectIds == { None, Some(<<"p","1">>), Some(<<"p","2">>) }

KeyParts == { <<"a",".","p","n","g">>, <<"/">>, <<"p","r","o","j","e","c","t","s","/">>, <<"p","2","/","m","e","d","i","a","/">>, <<"p","1","/","m","e","d","i","a","/">>, <<"P","r","o","j","e","c","t","s","/">> }

RECURSIVE KeysOfLen(_)
KeysOfLen(n) ==
    IF n = 0 THEN { <<>> }
    ELSE { part \o rest : part \in KeyParts, rest \in KeysOfLen(n - 1) }

\* caller-supplied keys: up to MaxKeyParts parts followed by a file name
StorageKeys == UNION { { k \o <<"a",".","p","n","g">> : k \in KeysOfLen(n) } : n \in 0..MaxKeyParts }

\* what the bucket may throw
R2Errors == { [message |-> Some(<<"i","n","t","e","r","n","a","l"," ","e","r","r","o","r">>)], [message |-> None] }

\* log entry of a bucket invocation; did is filled in when the bucket settles
R2Call(method, k) == [engine |-> "r2", method |-> method, key |-> k, did |-> None]

UrlOf(resolvedKey) == BaseUrl \o resolvedKey

InitStorage ==
    /\ d1 = FALSE
    /\ pgEnv = "none"
    /\ pgPool = FALSE
    /\ initDone = TRUE
    /\ routingRules = <<>>
    /\ inserted = <<>>
    /\ sql = <<>>
    /\ storage \in BOOLEAN
    /\ projectId \in ProjectIds
    /\ key = <<>>
    /\ op = "none"
    /\ pc = "idle" /\ target = "none" /\ outcome = None
    /\ queries = <<>> /\ i = 0 /\ results = <<>> /\ errors = <<>>
    /\ success = TRUE /\ batchResult = None /\ calls = <<>>
    /\ d1Catalog = <<>> /\ pgCatalog = <<>>
    /\ binding = None /\ tableRows = <<>> /\ tables = <<>> /\ schemaInfo = None
    /\ sdkServer = None /\ sdkClient = None /\ inits = 0 /\ accessed = None

storageUnchanged ==
    UNCHANGED << d1, pgEnv, pgPool, initDone, routingRules, inserted, sql, target,
                 queries, i, results, errors, success, batchResult, storage, projectId,
                 schemaVars, sdkVars >>

\* storage.upload(file, key) up to the put call, or to the not-configured throw
Upload ==
    /\ pc = "idle"
    /\ \E k \in StorageKeys :
          /\ key' = k
          /\ IF ~storage
             THEN /\ outcome' = Some(Thrown(StorageError(STORAGE_NOT_CONFIGURED,
                                                         MsgNotConfigured, None)))
                  /\ pc' = "done"
                  /\ calls' = calls
             ELSE /\ calls' = Append(calls, R2Call("put", resolveKey(projectId, k)))
                  /\ pc' = "put"
                  /\ outcome' = outcome
    /\ op' = "upload"
    /\ storageUnchanged

\* the put resolved: the object is read back for its size
PutResolves ==
    /\ pc = "put"
    /\ calls' = Append(Settle(calls, TRUE, "stored"),
                       R2Call("get", resolveKey(projectId, key)))
    /\ pc' = "get"
    /\ UNCHANGED << outcome, key, op >>
    /\ storageUnchanged

\* the get resolved: upload returns { key, url, size, contentType }
GetResolves ==
    /\ pc = "get"
    /\ \E size \in {0, 3} :
          /\ calls' = Settle(calls, TRUE, size)
          /\ outcome' = Some(Returned([key |-> resolveKey(projectId, key),
                                       url |-> UrlOf(resolveKey(projectId, key)),
                                       size |-> size]))
    /\ pc' = "done"
    /\ UNCHANGED << key, op >>
    /\ storageUnchanged

\* put or get rejected: the catch block of upload
UploadRejects ==
    /\ pc \in {"put", "get"}
    /\ \E err \in R2Errors :
          /\ calls' = Settle(calls, FALSE, err)
          /\ outcome' = Some(Thrown(StorageError(STORAGE_UPLOAD_FAILED,
                                                 MsgUploadFailed \o resolveKey(projectId, key),
                                                 err.message)))
    /\ pc' = "done"
    /\ UNCHANGED << key, op >>
    /\ storageUnchanged

\* storage.getUrl(key): the not-configured throw, or the public URL
GetUrl ==
    /\ pc = "idle"
    /\ \E k \in StorageKeys :
          /\ key' = k
          /\ outcome' = IF ~storage
                        THEN Some(Thrown(StorageError(STORAGE_NOT_CONFIGURED,
                                                      MsgNotConfigured, None)))
                        ELSE Some(Returned([url |-> UrlOf(resolveKey(projectId, k))]))
    /\ pc' = "done"
    /\ op' = "getUrl"
    /\ UNCHANGED calls
    /\ storageUnchanged

\* storage.delete(key) up to the delete call, or to the not-configured throw
Delete ==
    /\ pc = "idle"
    /\ \E k \in StorageKeys :
          /\ key' = k
          /\ IF ~storage
             THEN /\ outcome' = Some(Thrown(StorageError(STORAGE_NOT_CONFIGURED,
                                                         MsgNotConfigured, None)))
                  /\ pc' = "done"
                  /\ calls' = calls
             ELSE /\ calls' = Append(calls, R2Call("delete", resolveKey(projectId, k)))
                  /\ pc' = "delete"
                  /\ outcome' = outcome
    /\ op' = "delete"
    /\ storageUnchanged

DeleteResolves ==
    /\ pc = "delete"
    /\ calls' = Settle(calls, TRUE, "deleted")
    /\ outcome' = Some(Returned([url |-> <<>>]))
    /\ pc' = "done"
    /\ UNCHANGED << key, op >>
    /\ storageUnchanged

\* the delete rejected: the catch block of delete
DeleteRejects ==
    /\ pc = "delete"
    /\ \E err \in R2Errors :
          /\ calls' = Settle(calls, FALSE, err)
          /\ outcome' = Some(Thrown(StorageError(STORAGE_DELETE_FAILED,
                                                 MsgDeleteFailed \o resolveKey(projectId, key),
                                                 err.message)))
    /\ pc' = "done"
    /\ UNCHANGED << key, op >>
    /\ storageUnchanged

NextStorage ==
    \/ Upload
    \/ PutResolves
    \/ GetResolves
    \/ UploadRejects
    \/ GetUrl
    \/ Delete
    \/ DeleteResolves
    \/ DeleteRejects

SpecStorage == InitStorage /\ [][NextStorage]_vars

\* the prefix under which the objects of the configured project live
ProjectPrefix == <<"p","r","o","j","e","c","t","s","/">> \o Get(projectId) \o <<"/","m","e","d","i","a","/">>

Under(k, prefix) ==
    Len(k) >= Len(prefix) /\ \A j \in 1..Len(prefix) : k[j] = prefix[j]

\* the key part of a URL handed to the caller
KeyInUrl(url) == SubSeq(url, Len(<<"h","t","t","p","s",":","/","/","s","t","o","r","a","g","e",".","a","e","r","o","s","t","a","c","k",".","a","i","/">>) + 1, Len(url))

\* C30: with a project id P configured, every key that upload, delete and
\* getUrl pass to the object store or embed in the returned URL lies under
\* projects/P/media/, for every caller-supplied key; resolving an already
\* resolved key leaves it unchanged.
C30_KeysStayUnderProjectPrefix ==
    IsSome(projectId) =>
        /\ \A k \in DOMAIN calls : Under(calls[k].key, ProjectPrefix)
        /\ (pc = "done" /\ IsSome(outcome) /\ Get(outcome).kind = "returned"
              /\ op \in {"upload", "getUrl"}) =>
              Under(KeyInUrl(Get(Get(outcome).response).url), ProjectPrefix)
        /\ resolveKey(projectId, resolveKey(projectId, key)) = resolveKey(projectId, key)

====
